---- MODULE Spec2Model ----
(***************************************************************************)
(* A model of the micro-framework core: the Event Bus (EventManager plus   *)
(* the listener map of MicroFramework), the Router and the ModuleManager.  *)
(*                                                                         *)
(* JavaScript strings that the code takes apart (paths, URL fragments) are *)
(* sequences of one-character strings; opaque names are TLA+ strings.      *)
(* Each asynchronous call (navigate, loadModule, filter) is a task with a  *)
(* program counter; an action is the code that runs between two awaits.    *)
(***************************************************************************)
EXTENDS Integers, Sequences, FiniteSets, TLC

VARIABLES
    eventHistory,    \* EventManager.eventHistory
    emitCount,       \* ghost: number of records ever appended to the history
    eventListeners,  \* MicroFramework.eventListeners: event name -> listener list
    calls,           \* ghost: listener invocations, <<callback, argument>>, in order
    emitThrew,       \* ghost: some emit() call threw to its caller
    ftask,           \* the filter() calls: task -> its position in the code
    config,          \* the constructor options, as the components keep them
    routes,          \* Router.routes
    currentRoute,    \* Router.currentRoute
    modules,         \* ModuleManager.modules
    currentModule,   \* ModuleManager.currentModule
    isStarted,       \* MicroFramework.isStarted
    isLoading,       \* MicroFramework.isLoading
    moduleContainer, \* MicroFramework.moduleContainer
    containerObserver, \* MicroFramework.containerObserver is connected
    attached,        \* the document has the element config.container selects
    innerHTML,       \* what the mount target shows
    subscribed,      \* the window and document events the framework listens to
    hist,            \* the browser's session history: a sequence of URLs
    hidx,            \* the position of the current URL in hist
    bqueue,          \* browser events fired and not yet delivered
    task,            \* the navigate(), loadModule() and start() calls
    stack,           \* the tasks running synchronous code, innermost first
    trace            \* ghost: the hooks called and the events emitted, in order

busVars == <<eventHistory, emitCount, eventListeners, calls, emitThrew, ftask>>
appVars == <<config, routes, currentRoute, modules, currentModule, isStarted, isLoading,
             moduleContainer, containerObserver, attached, innerHTML, subscribed, hist, hidx, bqueue, task, stack,
             trace>>
vars == <<busVars, appVars>>

Null == "null"
Undefined == "undefined"

----------------------------------------------------------------------------
(* constants.js *)

EVENTS == { "framework:ready", "framework:destroyed",
            "module:registered", "module:unregistered", "module:load", "module:error",
            "route:registered", "route:will_change", "route:change", "route:error",
            "route:404", "loading:change", "error",
            "container:reinitialized", "container:removed", "container:recovered",
            "container:recovery_failed", "container:error", "plugin:installed" }

----------------------------------------------------------------------------
(* EventManager *)

maxHistorySize == 100

\* A record is {name, data, source, timestamp, time}; the two wall-clock
\* fields are left out and seq, the ordinal of the append, stands for the
\* identity of the record object.
HistoryRecord(eventName, data, source, n) ==
    [name |-> eventName, data |-> data, source |-> source, seq |-> n]

addToHistory_Pop(history, n, eventName, data, source) ==
    LET pushed == Append(history, HistoryRecord(eventName, data, source, n + 1))
    IN  IF Len(pushed) > maxHistorySize THEN SubSeq(pushed, 1, Len(pushed) - 1)
        ELSE pushed

\* push, then shift once when the length exceeds maxHistorySize
addToHistory(history, n, eventName, data, source) ==
    LET pushed == Append(history, HistoryRecord(eventName, data, source, n + 1))
    IN  IF Len(pushed) > maxHistorySize THEN Tail(pushed) ELSE pushed

isValidEvent(eventName) == eventName \in EVENTS

----------------------------------------------------------------------------
(* JavaScript values handed to listeners: numbers and undefined *)

Num(n) == [t |-> "number", n |-> n]
Undef  == [t |-> "undefined", n |-> 0]

\* The listener callbacks of the model, named after what they do when they
\* are called with x.  A callback returns a value, throws, or returns a
\* promise that later resolves to a value or rejects.
Callbacks == {"inc", "dbl", "incAsync", "undef", "undefAsync", "throw", "reject"}

CallbackResult(cb, x) ==
    CASE cb = "inc"        -> [kind |-> "return",   value |-> Num(x.n + 1)]
      [] cb = "dbl"        -> [kind |-> "return",   value |-> Num(2 * x.n)]
      [] cb = "incAsync"   -> [kind |-> "promise",  value |-> Num(x.n + 1)]
      [] cb = "undef"      -> [kind |-> "return",   value |-> Undef]
      [] cb = "undefAsync" -> [kind |-> "promise",  value |-> Undef]
      [] cb = "throw"      -> [kind |-> "throw",    value |-> Undef]
      [] cb = "reject"     -> [kind |-> "rejected", value |-> Undef]

ReturnsValue(cb) == cb \in {"inc", "dbl", "incAsync"}

----------------------------------------------------------------------------
(* MicroFramework: the listener map and the raw dispatch primitives *)

has(map, key) == key \in DOMAIN map

\* on(event, callback): create the list on first use, then push
on(listeners, event, callback) ==
    IF has(listeners, event)
    THEN [listeners EXCEPT ![event] = Append(@, callback)]
    ELSE (event :> <<callback>>) @@ listeners

indexOf(list, x) ==
    IF \E i \in 1..Len(list) : list[i] = x
    THEN CHOOSE i \in 1..Len(list) : list[i] = x /\ \A j \in 1..(i - 1) : list[j] # x
    ELSE 0

splice1(list, i) == SubSeq(list, 1, i - 1) \o SubSeq(list, i + 1, Len(list))

\* off(event, callback): remove the first occurrence, if any
off(listeners, event, callback) ==
    IF has(listeners, event) /\ indexOf(listeners[event], callback) > 0
    THEN [listeners EXCEPT ![event] = splice1(@, indexOf(@, callback))]
    ELSE listeners

\* One listener invocation, as the ghost log keeps it: the dispatch that made
\* it (the seq of the history record the dispatch appended first), the
\* callback and the argument.
Call(id, cb, arg) == [id |-> id, cb |-> cb, arg |-> arg]

RECURSIVE forEachNoCatch(_, _, _, _)
forEachNoCatch(list, i, data, id) ==
    IF i > Len(list) THEN [calls |-> <<>>, threw |-> FALSE]
    ELSE LET r == CallbackResult(list[i], data)
             rest == forEachNoCatch(list, i + 1, data, id)
         IN  IF r.kind = "throw"
             THEN [calls |-> <<Call(id, list[i], data)>>, threw |-> TRUE]
             ELSE [calls |-> <<Call(id, list[i], data)>> \o rest.calls,
                   threw |-> rest.threw]

emitRaw_NoCatch(listeners, event, data, id) ==
    IF has(listeners, event) THEN forEachNoCatch(listeners[event], 1, data, id)
    ELSE [calls |-> <<>>, threw |-> FALSE]

\* listeners.forEach(callback => { try { callback(data) } catch { log } }):
\* the invocations made, in order, and whether an exception left the loop.
\* What a callback returns is discarded (a rejected promise is nobody's to
\* catch); what it throws is caught inside the loop body.
RECURSIVE forEachListener(_, _, _, _)
forEachListener(list, i, data, id) ==
    IF i > Len(list) THEN [calls |-> <<>>, threw |-> FALSE]
    ELSE LET r == CallbackResult(list[i], data)
             caught == TRUE          \* the try/catch around the call
             rest == forEachListener(list, i + 1, data, id)
         IN  [calls |-> <<Call(id, list[i], data)>> \o rest.calls,
              threw |-> (r.kind = "throw" /\ ~caught) \/ rest.threw]

emitRaw(listeners, event, data, id) ==
    IF has(listeners, event) THEN forEachListener(listeners[event], 1, data, id)
    ELSE [calls |-> <<>>, threw |-> FALSE]

RECURSIVE filterLoop_AbortOnThrow(_, _, _, _, _)
filterLoop_AbortOnThrow(list, i, cur, data, id) ==
    IF i > Len(list)
    THEN [pc |-> "returning", idx |-> i, cur |-> cur, pending |-> Null, log |-> <<>>]
    ELSE LET r == CallbackResult(list[i], cur)
             call == Call(id, list[i], cur)
             next == IF r.value = Undef THEN data ELSE r.value
         IN  IF r.kind \in {"promise", "rejected"}
             THEN [pc |-> "awaiting", idx |-> i, cur |-> cur, pending |-> r.kind,
                   log |-> <<call>>]
             ELSE IF r.kind = "throw"
             THEN [pc |-> "returning", idx |-> i, cur |-> cur, pending |-> Null,
                   log |-> <<call>>]
             ELSE LET rest == filterLoop_AbortOnThrow(list, i + 1, next, data, id)
                  IN  [rest EXCEPT !.log = <<call>> \o @]

\* The for-of loop of filterRaw from index i on, as far as it runs without
\* suspending: up to the first callback that returns a promise (which is
\* awaited), or to the end of the list.  cur is currentData, data the
\* argument filter() was called with.
RECURSIVE filterLoop(_, _, _, _, _)
filterLoop(list, i, cur, data, id) ==
    IF i > Len(list)
    THEN [pc |-> "returning", idx |-> i, cur |-> cur, pending |-> Null, log |-> <<>>]
    ELSE LET r == CallbackResult(list[i], cur)
             call == Call(id, list[i], cur)
             next == CASE r.kind = "throw"  -> cur                 \* catch: keep currentData
                       [] r.kind = "return" -> IF r.value = Undef THEN data ELSE r.value
                       [] OTHER             -> cur
         IN  IF r.kind \in {"promise", "rejected"}
             THEN [pc |-> "awaiting", idx |-> i, cur |-> cur, pending |-> r.kind,
                   log |-> <<call>>]
             ELSE LET rest == filterLoop(list, i + 1, next, data, id)
                  IN  [rest EXCEPT !.log = <<call>> \o @]

RECURSIVE filterLoopPassOriginal(_, _, _, _, _)
filterLoopPassOriginal(list, i, cur, data, id) ==
    IF i > Len(list)
    THEN [pc |-> "returning", idx |-> i, cur |-> cur, pending |-> Null, log |-> <<>>]
    ELSE LET r == CallbackResult(list[i], data)
             call == Call(id, list[i], data)
             next == CASE r.kind = "throw"  -> cur
                       [] r.kind = "return" -> IF r.value = Undef THEN data ELSE r.value
                       [] OTHER             -> cur
         IN  IF r.kind \in {"promise", "rejected"}
             THEN [pc |-> "awaiting", idx |-> i, cur |-> data, pending |-> r.kind,
                   log |-> <<call>>]
             ELSE LET rest == filterLoopPassOriginal(list, i + 1, next, data, id)
                  IN  [rest EXCEPT !.log = <<call>> \o @]

filterRaw_PassOriginal(listeners, event, data, id) ==
    IF ~has(listeners, event)
    THEN [pc |-> "returning", idx |-> 0, cur |-> data, pending |-> Null, log |-> <<>>]
    ELSE filterLoopPassOriginal(listeners[event], 1, data, data, id)

\* filterRaw up to its first suspension
filterRaw(listeners, event, data, id) ==
    IF ~has(listeners, event)
    THEN [pc |-> "returning", idx |-> 0, cur |-> data, pending |-> Null, log |-> <<>>]
    ELSE filterLoop(listeners[event], 1, data, data, id)

filterResume_KeepCurrent(list, i, cur, data, id, settled, value) ==
    LET next == IF settled = "rejected" THEN cur
                ELSE IF value = Undef THEN cur ELSE value
    IN  filterLoop(list, i + 1, next, data, id)

\* filterRaw when the promise it awaits settles: currentData = await result,
\* undefined replaced by data; a rejection is caught and currentData kept.
\* The loop goes on over the list as it is now.  settled is how the promise
\* settled and value what it resolved to.
filterResume(list, i, cur, data, id, settled, value) ==
    LET next == IF settled = "rejected" THEN cur
                ELSE IF value = Undef THEN data ELSE value
    IN  filterLoop(list, i + 1, next, data, id)

----------------------------------------------------------------------------
(* Router: route records, matching and resolution *)

\* String.prototype.split('/') on a sequence of characters: the segments
\* between the slashes, empty segments included ("" gives one empty segment)
RECURSIVE splitFrom(_, _, _)
splitFrom(s, acc, cur) ==
    IF s = <<>> THEN Append(acc, cur)
    ELSE IF Head(s) = "/" THEN splitFrom(Tail(s), Append(acc, cur), <<>>)
    ELSE splitFrom(Tail(s), acc, Append(cur, Head(s)))

split(s) == splitFrom(s, <<>>, <<>>)

startsWith(s, c) == s # <<>> /\ Head(s) = c

\* params[name] = value on a plain object: one value per name, the last
\* assignment kept.  params is a set of <<name, value>> pairs.
setParam(params, name, value) ==
    {p \in params : p[1] # name} \cup {<<name, value>>}

RECURSIVE everyPartNoLiteralCheck(_, _, _, _)
everyPartNoLiteralCheck(routeParts, actualParts, index, params) ==
    IF index > Len(routeParts) THEN [isMatch |-> TRUE, params |-> params]
    ELSE IF startsWith(routeParts[index], ":")
         THEN everyPartNoLiteralCheck(routeParts, actualParts, index + 1,
                        setParam(params, Tail(routeParts[index]), actualParts[index]))
         ELSE everyPartNoLiteralCheck(routeParts, actualParts, index + 1, params)

\* routeParts.every((part, index) => ...): stops at the first part that does
\* not match; the parameters bound before that stay in params
RECURSIVE everyPart(_, _, _, _)
everyPart(routeParts, actualParts, index, params) ==
    IF index > Len(routeParts) THEN [isMatch |-> TRUE, params |-> params]
    ELSE IF startsWith(routeParts[index], ":")
         THEN everyPart(routeParts, actualParts, index + 1,
                        setParam(params, Tail(routeParts[index]), actualParts[index]))
         ELSE IF routeParts[index] = actualParts[index]
              THEN everyPart(routeParts, actualParts, index + 1, params)
              ELSE [isMatch |-> FALSE, params |-> params]

NoMatch == [matched |-> FALSE, params |-> {}]

matchRoute_NoLiteralCheck(routePath, actualPath) ==
    LET routeParts == split(routePath)
        actualParts == split(actualPath)
    IN  IF Len(routeParts) # Len(actualParts) THEN NoMatch
        ELSE LET r == everyPartNoLiteralCheck(routeParts, actualParts, 1, {})
             IN  IF r.isMatch THEN [matched |-> TRUE, params |-> r.params] ELSE NoMatch

\* matchRoute(routePath, actualPath): {params} or null
matchRoute(routePath, actualPath) ==
    LET routeParts == split(routePath)
        actualParts == split(actualPath)
    IN  IF Len(routeParts) # Len(actualParts) THEN NoMatch
        ELSE LET r == everyPart(routeParts, actualParts, 1, {})
             IN  IF r.isMatch THEN [matched |-> TRUE, params |-> r.params] ELSE NoMatch

\* The routes Map is a sequence of route records in insertion order, one per
\* key (the path).
routeIndex(rs, path) ==
    IF \E i \in 1..Len(rs) : rs[i].path = path
    THEN CHOOSE i \in 1..Len(rs) : rs[i].path = path
    ELSE 0

routesHas(rs, path) == routeIndex(rs, path) > 0

\* Map.prototype.set: a new key goes to the end, an existing key keeps its
\* place and gets the new value
routesSet(rs, path, route) ==
    IF routesHas(rs, path) THEN [rs EXCEPT ![routeIndex(rs, path)] = route]
    ELSE Append(rs, route)

NoRoute == [found |-> FALSE, path |-> <<>>, module |-> Null, handler |-> Null,
            beforeEnter |-> Null, afterEnter |-> Null, exact |-> TRUE, params |-> {}]

Resolved(route, params) ==
    [found |-> TRUE, path |-> route.path, module |-> route.module,
     handler |-> route.handler, beforeEnter |-> route.beforeEnter,
     afterEnter |-> route.afterEnter, exact |-> route.exact, params |-> params]

RECURSIVE lastPatternMatch(_, _, _)
lastPatternMatch(rs, i, path) ==
    IF i > Len(rs) THEN NoRoute
    ELSE LET match == matchRoute(rs[i].path, path)
             later == lastPatternMatch(rs, i + 1, path)
         IN  IF later.found THEN later
             ELSE IF match.matched THEN Resolved(rs[i], match.params) ELSE NoRoute

\* for (const [routePath, route] of this.routes): the first route, in Map
\* order from index i, that matchRoute accepts
RECURSIVE firstPatternMatch(_, _, _)
firstPatternMatch(rs, i, path) ==
    IF i > Len(rs) THEN NoRoute
    ELSE LET match == matchRoute(rs[i].path, path)
         IN  IF match.matched THEN Resolved(rs[i], match.params)
             ELSE firstPatternMatch(rs, i + 1, path)

findMatchingRoute_PatternFirst(rs, path) == firstPatternMatch(rs, 1, path)

\* findMatchingRoute(path): the route stored under the key path with empty
\* params, else the first route in Map order whose pattern matches, else null
findMatchingRoute(rs, path) ==
    IF routesHas(rs, path) THEN Resolved(rs[routeIndex(rs, path)], {})
    ELSE firstPatternMatch(rs, 1, path)

registerRouteThrows_HandlerRequired(options) == options.handler = Null

\* registerRoute(path, options) throws when options has neither a handler nor
\* a module
registerRouteThrows(options) == options.handler = Null /\ options.module = Null

\* the route record registerRoute stores: the defaults, overridden by options
routeRecord(path, options) ==
    [path |-> path, exact |-> TRUE, beforeEnter |-> options.beforeEnter,
     afterEnter |-> options.afterEnter, module |-> options.module,
     handler |-> options.handler]

----------------------------------------------------------------------------
(* Router: template handlers *)

\* \w of the regular expression
WordChars ==
    { "a", "b", "c", "d", "e", "f", "g", "h", "i", "j", "k", "l", "m", "n", "o", "p",
      "q", "r", "s", "t", "u", "v", "w", "x", "y", "z",
      "A", "B", "C", "D", "E", "F", "G", "H", "I", "J", "K", "L", "M", "N", "O", "P",
      "Q", "R", "S", "T", "U", "V", "W", "X", "Y", "Z",
      "0", "1", "2", "3", "4", "5", "6", "7", "8", "9", "_" }

\* The template strings of the model, by the name the handler goes by in a
\* route record; a text is a sequence of characters.  "<" stands for the
\* markup before a token and ">" for the markup after it.
Templates ==
    [ hi      |-> <<"<", "p", ">", "H", "i", " ", "{", "{", "n", "a", "m", "e", "}", "}",
                    "<", "/", "p", ">">>,
      twice   |-> <<"{", "{", "n", "a", "m", "e", "}", "}", "-",
                    "{", "{", "n", "a", "m", "e", "}", "}">>,
      mixed   |-> <<"{", "{", "o", "n", "}", "}", "{", "{", "z", "}", "}",
                    "{", "{", "n", "a", "m", "e", "}", "}">>,
      braces  |-> <<"{", "{", "{", "n", "a", "m", "e", "}", "}", "}">>,
      spaced  |-> <<"{", "{", " ", "n", "a", "m", "e", "}", "}", "{", "{", "}", "}">>,
      t1      |-> <<"t", "1">> ]

\* the text of a handler that is a string
TemplateText(handler) ==
    IF handler \in DOMAIN Templates THEN Templates[handler] ELSE <<handler>>

\* getContext(): the own properties of the execution context
ContextKeys ==
    { <<"f", "r", "a", "m", "e", "w", "o", "r", "k">>,
      <<"n", "a", "v", "i", "g", "a", "t", "e">>, <<"r", "e", "n", "d", "e", "r">>,
      <<"e", "m", "i", "t">>, <<"f", "i", "l", "t", "e", "r">>, <<"o", "n">>,
      <<"o", "f", "f">>}

\* the characters a sequence of characters spells
RECURSIVE Str(_)
Str(s) == IF s = <<>> THEN "" ELSE Head(s) \o Str(Tail(s))

\* String(context[key]): the source text of a bound function or
\* '[object Object]', written as one opaque character
contextText(key) == <<"[context." \o Str(key) \o "]">>

hasOwnProperty(params, variable) == \E p \in params : p[1] = variable
paramValue(params, variable) == (CHOOSE p \in params : p[1] = variable)[2]

\* the replacement function of processTemplate
replacement_ContextFirst(match, variable, params) ==
    IF variable \in ContextKeys THEN contextText(variable)
    ELSE IF hasOwnProperty(params, variable) THEN paramValue(params, variable)
    ELSE match

replacement(match, variable, params) ==
    IF hasOwnProperty(params, variable) THEN paramValue(params, variable)
    ELSE IF variable \in ContextKeys THEN contextText(variable)
    ELSE match

\* the end of the run of word characters that starts at i
RECURSIVE wordEnd(_, _)
wordEnd(s, i) == IF i <= Len(s) /\ s[i] \in WordChars THEN wordEnd(s, i + 1) ELSE i

\* template.replace(/\{\{(\w+)\}\}/g, replacement) from position i on: the
\* leftmost match is replaced and the scan goes on behind it
RECURSIVE replaceFrom(_, _, _)
replaceFrom(s, i, params) ==
    IF i > Len(s) THEN <<>>
    ELSE LET j == wordEnd(s, i + 2)
             matches == /\ i + 1 <= Len(s) /\ s[i] = "{" /\ s[i + 1] = "{"
                        /\ j > i + 2
                        /\ j + 1 <= Len(s) /\ s[j] = "}" /\ s[j + 1] = "}"
         IN  IF matches
             THEN replacement(SubSeq(s, i, j + 1), SubSeq(s, i + 2, j - 1), params)
                  \o replaceFrom(s, j + 2, params)
             ELSE <<s[i]>> \o replaceFrom(s, i + 1, params)

\* processTemplate(template, params, context)
processTemplate(template, params) == replaceFrom(template, 1, params)

----------------------------------------------------------------------------
(* The operations of the event bus *)

FTasks == {"f1"}

IdleFilter == [pc |-> "idle", event |-> Null, data |-> Undef, id |-> 0, idx |-> 0,
               cur |-> Undef, pending |-> Null, value |-> Undef, result |-> Undef]

\* framework.on(event, callback)
On(event, callback) ==
    /\ eventListeners' = on(eventListeners, event, callback)
    /\ UNCHANGED <<eventHistory, emitCount, calls, emitThrew, ftask, appVars>>

\* framework.off(event, callback)
Off(event, callback) ==
    /\ eventListeners' = off(eventListeners, event, callback)
    /\ UNCHANGED <<eventHistory, emitCount, calls, emitThrew, ftask, appVars>>

\* framework.emit(event, data) -> EventManager.emit(event, data, 'framework'):
\* the record is appended first, then the listeners run
UserEmit(event, data) ==
    LET raw == emitRaw(eventListeners, event, data, emitCount + 1)
    IN  /\ eventHistory' = addToHistory(eventHistory, emitCount, event, data, "framework")
        /\ emitCount' = emitCount + 1
        /\ calls' = calls \o raw.calls
        /\ emitThrew' = (emitThrew \/ raw.threw)
        /\ UNCHANGED <<eventListeners, ftask, appVars>>

\* framework.filter(event, data) -> EventManager.filter, up to its first
\* suspension: the ':filter' record, then filterRaw as far as it runs
FilterCall(t, event, data) ==
    LET run == filterRaw(eventListeners, event, data, emitCount + 1)
    IN  /\ ftask[t].pc = "idle"
        /\ eventHistory' = addToHistory(eventHistory, emitCount, event \o ":filter",
                                        data, "framework")
        /\ emitCount' = emitCount + 1
        /\ calls' = calls \o run.log
        /\ ftask' = [ftask EXCEPT ![t] =
                        [pc |-> run.pc, event |-> event, data |-> data,
                         id |-> emitCount + 1, idx |-> run.idx, cur |-> run.cur,
                         pending |-> run.pending,
                         value |-> IF run.pc = "awaiting"
                                   THEN CallbackResult(eventListeners[event][run.idx],
                                                       run.cur).value
                                   ELSE Undef,
                         result |-> Undef]]
        /\ UNCHANGED <<eventListeners, emitThrew, appVars>>

\* the promise a listener returned settles and filterRaw goes on
FilterResume(t) ==
    LET f == ftask[t]
        list == IF has(eventListeners, f.event) THEN eventListeners[f.event] ELSE <<>>
        run == filterResume(list, f.idx, f.cur, f.data, f.id, f.pending, f.value)
    IN  /\ f.pc = "awaiting"
        /\ calls' = calls \o run.log
        /\ ftask' = [ftask EXCEPT ![t] =
                        [f EXCEPT !.pc = run.pc, !.idx = run.idx, !.cur = run.cur,
                                  !.pending = run.pending,
                                  !.value = IF run.pc = "awaiting"
                                            THEN CallbackResult(list[run.idx], run.cur).value
                                            ELSE Undef]]
        /\ UNCHANGED <<eventHistory, emitCount, eventListeners, emitThrew, appVars>>

\* filterRaw has returned: the ':filter-result' record, and filter() resolves
FilterReturn(t) ==
    LET f == ftask[t]
    IN  /\ f.pc = "returning"
        /\ eventHistory' = addToHistory(eventHistory, emitCount,
                                        f.event \o ":filter-result", f.cur, "framework")
        /\ emitCount' = emitCount + 1
        /\ ftask' = [ftask EXCEPT ![t] = [f EXCEPT !.pc = "done", !.result = f.cur]]
        /\ UNCHANGED <<eventListeners, calls, emitThrew, appVars>>

\* framework.clearEventHistory() -> EventManager.clearHistory()
ClearEventHistory ==
    /\ eventHistory' = <<>>
    /\ UNCHANGED <<emitCount, eventListeners, calls, emitThrew, ftask, appVars>>

----------------------------------------------------------------------------
(* The state of the framework after construction *)

NavTasks == {"n1", "n2", "n3"}
LoadTasks == {"l1", "l2"}
Tasks == NavTasks \cup LoadTasks \cup {"start"}

\* A module definition: its name, the hooks it defines, whether it declares
\* a beforeEnter guard (no code reads it), and the routes it declares
\* (object form: the entries in key order)
NoModule == [name |-> Null, render |-> FALSE, onRegister |-> FALSE,
             beforeMount |-> FALSE, afterMount |-> FALSE, destroy |-> FALSE,
             beforeEnter |-> FALSE, routes |-> <<>>]

\* One call: where it is in the code, its arguments and locals, and (ghost)
\* the current route and the session history it found when it was called
IdleTask == [pc |-> "idle", outcome |-> Null, path |-> <<>>, skipHistory |-> FALSE,
             route |-> NoRoute, name |-> Null, module |-> NoModule,
             ret |-> Null, next |-> Null, onThrow |-> Null, settled |-> Null,
             calledWith |-> [origin |-> Null, currentRoute |-> NoRoute,
                             currentModule |-> NoModule, hist |-> <<>>, hidx |-> 0,
                             emitCount |-> 0]]

\* A URL of the page: the path and the fragment
Url(pathname, hash) == [pathname |-> pathname, hash |-> hash]

\* config.notFoundHandler: absent, a function, a template string or {module}
NotFoundDefault == [kind |-> "none", module |-> Null]

\* new MicroFramework(options) with router: {mode, base, hashbang, beforeEnter,
\* afterEnter, notFoundHandler} and lazy
DefaultConfig ==
    [mode |-> "history", base |-> <<>>, hashbang |-> FALSE, beforeEnter |-> Null,
     afterEnter |-> Null, notFoundHandler |-> NotFoundDefault, lazy |-> TRUE]

InitApp(options) ==
    /\ config = options
    /\ routes = <<>>
    /\ currentRoute = NoRoute
    /\ modules = <<>>
    /\ currentModule = NoModule
    /\ isStarted = FALSE
    /\ isLoading = FALSE
    /\ moduleContainer = Null
    /\ containerObserver = FALSE
    /\ attached = TRUE
    /\ innerHTML = ""
    /\ subscribed = {}
    /\ hist = <<Url(options.base \o <<"/">>, <<>>)>>
    /\ hidx = 1
    /\ bqueue = <<>>
    /\ task = [t \in Tasks |-> IdleTask]
    /\ stack = <<>>
    /\ trace = <<>>

\* new MicroFramework(options): the event bus and the components
Init(options) ==
    /\ eventHistory = <<>>
    /\ emitCount = 0
    /\ eventListeners = <<>>
    /\ calls = <<>>
    /\ emitThrew = FALSE
    /\ ftask = [t \in FTasks |-> IdleFilter]
    /\ InitApp(options)

----------------------------------------------------------------------------
(* Steps: what an action appends to the ghost trace and to the event bus *)

\* One entry of the trace: task t called a hook or emitted an event.  For an
\* emit, name is the event and path and arg are its data.
Item(t, op, name, path, from, arg) ==
    [t |-> t, op |-> op, name |-> name, path |-> path, from |-> from, arg |-> arg]

Hook(t, op, name) == Item(t, op, name, <<>>, <<>>, "")
Emit(t, event, path, arg) == Item(t, "emit", event, path, <<>>, arg)

EventData(item) == [name |-> item.arg, path |-> item.path]

\* framework.emit(event, data) for each emit among the items, in order
RECURSIVE emitAll(_, _, _)
emitAll(items, i, bus) ==
    IF i > Len(items) THEN bus
    ELSE IF items[i].op # "emit" THEN emitAll(items, i + 1, bus)
    ELSE LET raw == emitRaw(eventListeners, items[i].name, EventData(items[i]), bus.n + 1)
         IN  emitAll(items, i + 1,
                     [history |-> addToHistory(bus.history, bus.n, items[i].name,
                                               EventData(items[i]), "framework"),
                      n |-> bus.n + 1,
                      calls |-> bus.calls \o raw.calls,
                      threw |-> bus.threw \/ raw.threw])

Do(items) ==
    LET bus == emitAll(items, 1, [history |-> eventHistory, n |-> emitCount,
                                  calls |-> calls, threw |-> emitThrew])
    IN  /\ trace' = trace \o items
        /\ eventHistory' = bus.history
        /\ emitCount' = bus.n
        /\ calls' = bus.calls
        /\ emitThrew' = bus.threw
        /\ UNCHANGED <<eventListeners, ftask>>

\* The task whose synchronous code is running, and the event loop between
\* two tasks.  A call that is not awaited pushes the callee; a task that
\* suspends or returns is popped and its caller runs on.
Running(t) == stack # <<>> /\ Head(stack) = t
LoopIdle == stack = <<>>

Outcomes == {"ok", "throw"}

\* await: the task suspends until the awaited value settles
Suspend(t, settled, next, onThrow) ==
    /\ task' = [task EXCEPT ![t] = [@ EXCEPT !.pc = "await", !.settled = settled,
                                              !.next = next, !.onThrow = onThrow]]
    /\ stack' = Tail(stack)

Goto(t, pc) == task' = [task EXCEPT ![t] = [@ EXCEPT !.pc = pc]]

Finish(t, outcome) ==
    /\ task' = [task EXCEPT ![t] = [@ EXCEPT !.pc = "done", !.outcome = outcome]]
    /\ stack' = Tail(stack)

\* the awaited value has settled and the event loop runs the continuation
Resume(t) ==
    /\ LoopIdle
    /\ task[t].pc = "await"
    /\ task' = [task EXCEPT ![t] =
                   [@ EXCEPT !.pc = IF task[t].settled \in {"throw", "reject"}
                                    THEN task[t].onThrow ELSE task[t].next]]
    /\ stack' = <<t>>
    /\ UNCHANGED <<busVars, config, routes, currentRoute, modules, currentModule,
                   isStarted, isLoading, moduleContainer, containerObserver, attached,
                   innerHTML, subscribed, hist, hidx, bqueue, trace>>

----------------------------------------------------------------------------
(* The browser location *)

location == hist[hidx]

isPrefix(p, s) == Len(p) <= Len(s) /\ SubSeq(s, 1, Len(p)) = p

orRoot(s) == IF s = <<>> THEN <<"/">> ELSE s

\* getCurrentRoute(): the path without the base, or the fragment without its
\* '#' or '#!'; '/' when that is empty
getCurrentRoute(cfg, url) ==
    IF cfg.mode = "history"
    THEN LET path == IF cfg.base # <<>> /\ isPrefix(cfg.base, url.pathname)
                     THEN SubSeq(url.pathname, Len(cfg.base) + 1, Len(url.pathname))
                     ELSE url.pathname
         IN  orRoot(path)
    ELSE IF cfg.hashbang /\ isPrefix(<<"#", "!">>, url.hash)
         THEN orRoot(SubSeq(url.hash, 3, Len(url.hash)))
         ELSE IF isPrefix(<<"#">>, url.hash)
              THEN orRoot(SubSeq(url.hash, 2, Len(url.hash)))
              ELSE <<"/">>

\* history.pushState: the entries after the current one are dropped, the new
\* URL is appended and becomes current; no event is fired
pushState(url) ==
    /\ hist' = Append(SubSeq(hist, 1, hidx), url)
    /\ hidx' = hidx + 1
    /\ UNCHANGED bqueue

setHash_Silent(h) ==
    IF h = location.hash THEN UNCHANGED <<hist, hidx, bqueue>>
    ELSE /\ hist' = Append(SubSeq(hist, 1, hidx), Url(location.pathname, h))
         /\ hidx' = hidx + 1
         /\ UNCHANGED bqueue

\* location.hash = h: when the fragment changes a new entry is appended and
\* a hashchange is fired
setHash(h) ==
    IF h = location.hash THEN UNCHANGED <<hist, hidx, bqueue>>
    ELSE /\ hist' = Append(SubSeq(hist, 1, hidx), Url(location.pathname, h))
         /\ hidx' = hidx + 1
         /\ bqueue' = Append(bqueue, "hashchange")

\* updateBrowserUrl(path)
updateBrowserUrl(cfg, path) ==
    IF cfg.mode = "history" THEN pushState(Url(cfg.base \o path, <<>>))
    ELSE setHash((IF cfg.hashbang THEN <<"#", "!">> ELSE <<"#">>) \o path)

----------------------------------------------------------------------------
(* Router: registerRoute and the navigation *)

\* registerRoute(path, options), called by the application
RegisterRoute(path, options) ==
    /\ LoopIdle
    /\ IF registerRouteThrows(options)
       THEN /\ Do(<<Hook("user", "throw", "registerRoute")>>)
            /\ UNCHANGED routes
       ELSE /\ routes' = routesSet(routes, path, routeRecord(path, options))
            /\ Do(<<Emit("user", "route:registered", path,
                         IF options.handler = Null THEN "" ELSE options.handler)>>)
    /\ UNCHANGED <<config, currentRoute, modules, currentModule, isStarted, isLoading,
                   moduleContainer, containerObserver, attached, innerHTML, subscribed,
                   hist, hidx, bqueue, task, stack>>

\* navigate(path, options) is entered: the route is resolved
enteredNavigate(path, skipHistory, origin) ==
    LET route == findMatchingRoute(routes, path)
    IN  [IdleTask EXCEPT !.pc = IF route.found THEN "guardGlobal" ELSE "notFound",
                         !.path = path, !.skipHistory = skipHistory, !.route = route,
                         !.calledWith = [origin |-> origin, currentRoute |-> currentRoute,
                                         currentModule |-> currentModule,
                                         hist |-> hist, hidx |-> hidx,
                                         emitCount |-> emitCount]]

resolveItem(t, path) ==
    Item(t, "resolve", "", findMatchingRoute(routes, path).path, <<>>, "")

\* framework.navigate(path, options), called by the application
Navigate(t, path, skipHistory) ==
    /\ LoopIdle
    /\ task[t].pc = "idle"
    /\ task' = [task EXCEPT ![t] = enteredNavigate(path, skipHistory, "navigate")]
    /\ stack' = <<t>>
    /\ Do(<<resolveItem(t, path)>>)
    /\ UNCHANGED <<config, routes, currentRoute, modules, currentModule, isStarted,
                   isLoading, moduleContainer, containerObserver, attached, innerHTML,
                   subscribed, hist, hidx, bqueue>>

isFalse_Never(settled) == FALSE
isFalse_DirectOnly(settled) == settled = "false"

\* result === false, after the await
isFalse(settled) == settled \in {"false", "promise:false"}

\* the global beforeEnter guard, if configured, is called and awaited
GuardGlobal(t, r) ==
    /\ Running(t)
    /\ task[t].pc = "guardGlobal"
    /\ IF config.beforeEnter = Null
       THEN /\ Goto(t, "guardRoute")
            /\ UNCHANGED <<stack, busVars, trace>>
       ELSE /\ Do(<<Item(t, "beforeEnter", "global", task[t].route.path,
                            currentRoute.path, r)>>)
            /\ Suspend(t, r, "checkGlobal", "rejected")
    /\ UNCHANGED <<config, routes, currentRoute, modules, currentModule, isStarted,
                   isLoading, moduleContainer, containerObserver, attached, innerHTML,
                   subscribed, hist, hidx, bqueue>>

\* if (result === false) return
CheckGuard(t, pc, next) ==
    /\ Running(t)
    /\ task[t].pc = pc
    /\ IF isFalse(task[t].settled) THEN Finish(t, "cancelled")
       ELSE Goto(t, next) /\ UNCHANGED stack
    /\ UNCHANGED <<busVars, trace, config, routes, currentRoute, modules,
                   currentModule, isStarted, isLoading, moduleContainer,
                   containerObserver, attached, innerHTML, subscribed, hist, hidx,
                   bqueue>>

CheckGlobal(t) == CheckGuard(t, "checkGlobal", "guardRoute")

\* the route's beforeEnter guard, if any, is called and awaited
GuardRoute(t, r) ==
    /\ Running(t)
    /\ task[t].pc = "guardRoute"
    /\ IF task[t].route.beforeEnter = Null
       THEN /\ Goto(t, "updateUrl")
            /\ UNCHANGED <<stack, busVars, trace>>
       ELSE /\ Do(<<Item(t, "beforeEnter", "route", task[t].route.path,
                            currentRoute.path, r)>>)
            /\ Suspend(t, r, "checkRoute", "rejected")
    /\ UNCHANGED <<config, routes, currentRoute, modules, currentModule, isStarted,
                   isLoading, moduleContainer, containerObserver, attached, innerHTML,
                   subscribed, hist, hidx, bqueue>>

CheckRoute(t) == CheckGuard(t, "checkRoute", "updateUrl")

\* a guard threw: the exception leaves navigate(), whose promise rejects
Rejected(t) ==
    /\ Running(t)
    /\ task[t].pc = "rejected"
    /\ Finish(t, "rejected")
    /\ UNCHANGED <<busVars, trace, config, routes, currentRoute, modules,
                   currentModule, isStarted, isLoading, moduleContainer,
                   containerObserver, attached, innerHTML, subscribed, hist, hidx,
                   bqueue>>

UpdateUrl_Always(t) ==
    /\ Running(t)
    /\ task[t].pc = "updateUrl"
    /\ updateBrowserUrl(config, task[t].path)
    /\ Do(<<Item(t, "updateBrowserUrl", "", task[t].path, <<>>, "")>>)
    /\ Goto(t, "handleRoute")
    /\ UNCHANGED <<stack, config, routes, currentRoute, modules, currentModule,
                   isStarted, isLoading, moduleContainer, containerObserver, attached,
                   innerHTML, subscribed>>

\* if (!options.skipHistory) updateBrowserUrl(path)
UpdateUrl(t) ==
    /\ Running(t)
    /\ task[t].pc = "updateUrl"
    /\ IF task[t].skipHistory
       THEN UNCHANGED <<hist, hidx, bqueue, busVars, trace>>
       ELSE /\ updateBrowserUrl(config, task[t].path)
            /\ Do(<<Item(t, "updateBrowserUrl", "", task[t].path, <<>>, "")>>)
    /\ Goto(t, "handleRoute")
    /\ UNCHANGED <<stack, config, routes, currentRoute, modules, currentModule,
                   isStarted, isLoading, moduleContainer, containerObserver, attached,
                   innerHTML, subscribed>>

\* handleRoute(route): the module, if the route names one, is loaded first
HandleRoute(t) ==
    /\ Running(t)
    /\ task[t].pc = "handleRoute"
    /\ IF task[t].route.module # Null
       THEN task' = [task EXCEPT ![t] = [@ EXCEPT !.pc = "load", !.ret = "handler",
                                                  !.name = task[t].route.module]]
       ELSE Goto(t, "handler")
    /\ UNCHANGED <<stack, busVars, trace, config, routes, currentRoute, modules,
                   currentModule, isStarted, isLoading, moduleContainer,
                   containerObserver, attached, innerHTML, subscribed, hist, hidx,
                   bqueue>>

\* the handlers that are functions; any other handler is a template string
FunctionHandlers == {"h1", "h2", "h3", "h4"}

\* handleRoute(route): the handler, if the route has one, is called and
\* awaited; then handleRoute returns to navigate, which awaits it.  o is
\* what a function handler does.
Handler(t, o) ==
    /\ Running(t)
    /\ task[t].pc = "handler"
    /\ IF task[t].route.handler = Null
       THEN /\ Suspend(t, "ok", "settle", "failed")
            /\ UNCHANGED <<busVars, trace, innerHTML>>
       ELSE IF task[t].route.handler \in FunctionHandlers
       THEN /\ Do(<<Item(t, "handler", task[t].route.handler, task[t].route.path,
                         <<>>, o)>>)
            /\ Suspend(t, o, "settle", "failed")
            /\ UNCHANGED innerHTML
       ELSE \* a template: moduleContainer.innerHTML = processTemplate(...), a
            \* TypeError when there is no container
            /\ Do(<<Item(t, "template", task[t].route.handler, task[t].route.path,
                         <<>>, "")>>)
            /\ innerHTML' = IF moduleContainer = Null THEN innerHTML
                            ELSE Str(processTemplate(TemplateText(task[t].route.handler),
                                                     task[t].route.params))
            /\ Suspend(t, IF moduleContainer = Null THEN "throw" ELSE "ok",
                       "settle", "failed")
    /\ UNCHANGED <<config, routes, currentRoute, modules, currentModule, isStarted,
                   isLoading, moduleContainer, containerObserver, attached, subscribed,
                   hist, hidx, bqueue>>

afterEnterItems_GlobalFirst(t, route, from, o1, o2) ==
    (IF config.afterEnter # Null
     THEN <<Item(t, "afterEnter", "global", route.path, from, "")>> ELSE <<>>)
    \o (IF route.afterEnter # Null
        THEN <<Item(t, "afterEnter", "route", route.path, from, "")>> ELSE <<>>)

\* the afterEnter hooks called before one of them throws, and whether one did
afterEnterItems(t, route, from, o1, o2) ==
    (IF route.afterEnter # Null
     THEN <<Item(t, "afterEnter", "route", route.path, from, "")>> ELSE <<>>)
    \o (IF config.afterEnter # Null /\ ~(route.afterEnter # Null /\ o1 = "throw")
        THEN <<Item(t, "afterEnter", "global", route.path, from, "")>> ELSE <<>>)

afterEnterThrew(route, o1, o2) ==
    \/ route.afterEnter # Null /\ o1 = "throw"
    \/ config.afterEnter # Null /\ o2 = "throw"

\* the navigation requested last
LatestNavigation ==
    LET ks == {k \in 1..Len(trace) : trace[k].op = "resolve"}
    IN  trace[CHOOSE k \in ks : \A j \in ks : j <= k].t

Settle_IfLatest(t, o1, o2) ==
    /\ Running(t)
    /\ task[t].pc = "settle"
    /\    LET route == task[t].route
              hooks == afterEnterItems(t, route, currentRoute.path, o1, o2)
          IN  IF t # LatestNavigation
              THEN /\ UNCHANGED <<busVars, trace, currentRoute>>
                   /\ Finish(t, "cancelled")
              ELSE /\ Do(hooks \o <<Item(t, "currentRoute", "", route.path, <<>>, ""),
                                    Emit(t, "route:change", route.path, "")>>)
                   /\ currentRoute' = route
                   /\ Finish(t, "settled")
    /\ UNCHANGED <<config, routes, modules, currentModule, isStarted, isLoading,
                   moduleContainer, containerObserver, attached, innerHTML, subscribed,
                   hist, hidx, bqueue>>

\* after handleRoute: the route's afterEnter, the global afterEnter, then
\* currentRoute = route and route:change; a hook that throws lands in the
\* catch block, which emits route:error
Settle(t, o1, o2) ==
    /\ Running(t)
    /\ task[t].pc = "settle"
    /\    LET route == task[t].route
              hooks == afterEnterItems(t, route, currentRoute.path, o1, o2)
          IN  IF afterEnterThrew(route, o1, o2)
              THEN /\ Do(hooks \o <<Emit(t, "route:error", route.path, "")>>)
                   /\ UNCHANGED currentRoute
                   /\ Finish(t, "error")
              ELSE /\ Do(hooks \o <<Item(t, "currentRoute", "", route.path, <<>>, ""),
                                    Emit(t, "route:change", route.path, "")>>)
                   /\ currentRoute' = route
                   /\ Finish(t, "settled")
    /\ UNCHANGED <<config, routes, modules, currentModule, isStarted, isLoading,
                   moduleContainer, containerObserver, attached, innerHTML, subscribed,
                   hist, hidx, bqueue>>

Failed_Rethrow(t) ==
    /\ Running(t)
    /\ task[t].pc = "failed"
    /\ Finish(t, "rejected")
    /\ UNCHANGED <<busVars, trace, config, routes, currentRoute, modules,
                   currentModule, isStarted, isLoading, moduleContainer,
                   containerObserver, attached, innerHTML, subscribed, hist, hidx,
                   bqueue>>

\* catch (error): route:error
Failed(t) ==
    /\ Running(t)
    /\ task[t].pc = "failed"
    /\ Do(<<Emit(t, "route:error", task[t].route.path, "")>>)
    /\ Finish(t, "error")
    /\ UNCHANGED <<config, routes, currentRoute, modules, currentModule, isStarted,
                   isLoading, moduleContainer, containerObserver, attached, innerHTML,
                   subscribed, hist, hidx, bqueue>>

\* a task that stands for one more call, if there is one left
freeTask(ts) == IF \E k \in ts : task[k].pc = "idle"
                THEN CHOOSE k \in ts : task[k].pc = "idle"
                ELSE CHOOSE k \in ts : TRUE

\* the task a call to loadModule(name) starts
enteredLoad(name, ret) ==
    [IdleTask EXCEPT !.pc = "load", !.name = name, !.ret = ret,
                     !.calledWith = [origin |-> "loadModule", currentRoute |-> currentRoute,
                                     currentModule |-> currentModule, hist |-> hist,
                                     hidx |-> hidx, emitCount |-> emitCount]]

\* handle404(path), up to the call of a not-found module's loadModule
NotFound(t, o) ==
    /\ Running(t)
    /\ task[t].pc = "notFound"
    /\ CASE config.notFoundHandler.kind = "function" ->
                 /\ UNCHANGED <<moduleContainer, containerObserver, innerHTML>>
                 /\ IF o = "throw"
                    THEN /\ Do(<<Item(t, "notFoundHandler", "function", <<>>, <<>>, o)>>)
                         /\ Finish(t, "rejected")
                    ELSE /\ Do(<<Item(t, "notFoundHandler", "function", <<>>, <<>>, o),
                                 Emit(t, "route:404", task[t].path, "")>>)
                         /\ Finish(t, "notFound")
         [] config.notFoundHandler.kind = "module" ->
              \E l \in LoadTasks :
                 /\ l = freeTask(LoadTasks)
                 /\ task[l].pc = "idle"
                 /\ task' = [task EXCEPT
                                ![t] = [@ EXCEPT !.pc = "notFoundEmit"],
                                ![l] = enteredLoad(config.notFoundHandler.module, "return")]
                 /\ stack' = <<l>> \o stack
                 /\ Do(<<Hook(t, "notFoundHandler", "module")>>)
                 /\ UNCHANGED <<moduleContainer, containerObserver, innerHTML>>
         [] OTHER ->
              \* moduleContainer.innerHTML = ...: a TypeError when there is no
              \* container
              IF moduleContainer = Null
              THEN /\ Do(<<Hook(t, "notFoundHandler", config.notFoundHandler.kind)>>)
                   /\ Finish(t, "rejected")
                   /\ UNCHANGED <<moduleContainer, containerObserver, innerHTML>>
              ELSE /\ innerHTML' = "404:" \o config.notFoundHandler.kind
                   /\ Do(<<Hook(t, "notFoundHandler", config.notFoundHandler.kind),
                           Emit(t, "route:404", task[t].path, "")>>)
                   /\ Finish(t, "notFound")
                   /\ UNCHANGED <<moduleContainer, containerObserver>>
    /\ UNCHANGED <<config, attached, routes, currentRoute, modules, currentModule,
                   isStarted, isLoading, subscribed, hist, hidx, bqueue>>

NotFoundEmit_Skip(t) ==
    /\ Running(t)
    /\ task[t].pc = "notFoundEmit"
    /\ Finish(t, "notFound")
    /\ UNCHANGED <<busVars, trace, config, routes, currentRoute, modules,
                   currentModule, isStarted, isLoading, moduleContainer,
                   containerObserver, attached, innerHTML, subscribed, hist, hidx,
                   bqueue>>

\* handle404(path) after the not-found module's loadModule has suspended
NotFoundEmit(t) ==
    /\ Running(t)
    /\ task[t].pc = "notFoundEmit"
    /\ Do(<<Emit(t, "route:404", task[t].path, "")>>)
    /\ Finish(t, "notFound")
    /\ UNCHANGED <<config, routes, currentRoute, modules, currentModule, isStarted,
                   isLoading, moduleContainer, containerObserver, attached, innerHTML,
                   subscribed, hist, hidx, bqueue>>

----------------------------------------------------------------------------
(* ModuleManager *)

registerModuleThrows_Never(module) == FALSE

\* registerModule(name, module) throws unless module is an object with a render
registerModuleThrows(module) == ~module.render

\* modules.set(name, {name, ...module})
modulesSet(ms, name, module) == (name :> [module EXCEPT !.name = name]) @@ ms

\* the options have no key of that name
Unset == "unset"

\* A value of module.routes[path]: an options object (kind "object", with
\* or without a handler), a template string, a function, or anything else
\* (undefined, null, a number).  An element of a module.routes array: a bare
\* path string (kind "listPath"), a record with a path (kind "listRecord")
\* or a record without one (kind "listNoPath").  An object or a record may
\* have a module key of its own.
RouteOptions(kind, handler, beforeEnter, afterEnter) ==
    [kind |-> kind, handler |-> handler, beforeEnter |-> beforeEnter,
     afterEnter |-> afterEnter, module |-> Unset]

ListKinds == {"listPath", "listRecord", "listNoPath"}

normalizeRouteOptions_DefaultHandler(routeOptions) ==
    CASE routeOptions.kind \in {"string", "function"} ->
             [handler |-> routeOptions.handler, beforeEnter |-> Null,
              afterEnter |-> Null, useModuleRender |-> FALSE, module |-> Unset]
      [] routeOptions.kind = "object" ->
             [handler |-> IF routeOptions.handler = Null THEN "default"
                          ELSE routeOptions.handler,
              beforeEnter |-> routeOptions.beforeEnter,
              afterEnter |-> routeOptions.afterEnter,
              useModuleRender |-> FALSE, module |-> routeOptions.module]
      [] OTHER ->
             [handler |-> "default", beforeEnter |-> Null, afterEnter |-> Null,
              useModuleRender |-> FALSE, module |-> Unset]

\* normalizeRouteOptions(routeOptions): a string or a function becomes
\* {handler}; an object without a (truthy) handler, and anything that is not
\* an object, is marked useModuleRender
normalizeRouteOptions(routeOptions) ==
    CASE routeOptions.kind \in {"string", "function"} ->
             [handler |-> routeOptions.handler, beforeEnter |-> Null,
              afterEnter |-> Null, useModuleRender |-> FALSE, module |-> Unset]
      [] routeOptions.kind = "object" ->
             [handler |-> routeOptions.handler,
              beforeEnter |-> routeOptions.beforeEnter,
              afterEnter |-> routeOptions.afterEnter,
              useModuleRender |-> routeOptions.handler = Null,
              module |-> routeOptions.module]
      [] OTHER ->
             [handler |-> Null, beforeEnter |-> Null, afterEnter |-> Null,
              useModuleRender |-> TRUE, module |-> Unset]

listRouteOptions_NoDefault(name, routeConfig) ==
    [module |-> IF routeConfig.module = Unset THEN name ELSE routeConfig.module,
     handler |-> routeConfig.handler,
     beforeEnter |-> routeConfig.beforeEnter,
     afterEnter |-> routeConfig.afterEnter]

\* the options of an element of a module.routes array: {module: name,
\* handler: 'default'} for a bare path, and {module: name, handler:
\* routeConfig.handler || 'default', ...routeConfig} without the path for a
\* record
listRouteOptions(name, routeConfig) ==
    [module |-> IF routeConfig.module = Unset THEN name ELSE routeConfig.module,
     handler |-> IF routeConfig.handler = Null THEN "default" ELSE routeConfig.handler,
     beforeEnter |-> routeConfig.beforeEnter,
     afterEnter |-> routeConfig.afterEnter]

\* {module: name, ...normalizedOptions}, useModuleRender deleted, for an
\* entry of a module.routes object
moduleRouteOptions(name, routeOptions) ==
    IF routeOptions.kind \in ListKinds THEN listRouteOptions(name, routeOptions)
    ELSE LET normalizedOptions == normalizeRouteOptions(routeOptions)
         IN  [module |-> IF normalizedOptions.module = Unset THEN name
                         ELSE normalizedOptions.module,
              handler |-> normalizedOptions.handler,
              beforeEnter |-> normalizedOptions.beforeEnter,
              afterEnter |-> normalizedOptions.afterEnter]

\* module.routes.forEach / Object.entries(module.routes).forEach from entry
\* i on: the route map and the events of the registrations made, up to the
\* first registerRoute that throws (nothing catches it inside the loop).  A
\* record without path in an array is passed over.
RECURSIVE registerEntries(_, _, _, _)
registerEntries(name, entries, i, acc) ==
    IF i > Len(entries) THEN acc
    ELSE LET options == moduleRouteOptions(name, entries[i].options)
         IN  IF entries[i].options.kind = "listNoPath"
             THEN registerEntries(name, entries, i + 1, acc)
             ELSE IF registerRouteThrows(options)
             THEN [acc EXCEPT !.threw = TRUE]
             ELSE registerEntries(name, entries, i + 1,
                     [acc EXCEPT
                        !.routes = routesSet(@, entries[i].path,
                                             routeRecord(entries[i].path, options)),
                        !.items = Append(@, Emit("user", "route:registered",
                                                 entries[i].path,
                                                 IF options.handler = Null THEN ""
                                                 ELSE options.handler))])

\* registerModule(name, module), called by the application; o is what
\* onRegister does when it is called
RegisterModule(name, module, o) ==
    /\ LoopIdle
    /\ IF registerModuleThrows(module)
       THEN /\ Do(<<Hook("user", "throw", "registerModule")>>)
            /\ UNCHANGED <<modules, routes>>
       ELSE LET hook == IF module.onRegister
                        THEN <<Item("user", "onRegister", name, <<>>, <<>>, o)>>
                        ELSE <<>>
                reg == registerEntries(name, module.routes, 1,
                                       [routes |-> routes, items |-> <<>>,
                                        threw |-> FALSE])
            IN  /\ modules' = modulesSet(modules, name, module)
                /\ routes' = reg.routes
                /\ Do(hook \o reg.items
                      \o (IF reg.threw THEN <<Hook("user", "throw", "registerModule")>>
                          ELSE <<Emit("user", "module:registered", <<>>, name)>>))
    /\ UNCHANGED <<config, currentRoute, currentModule, isStarted, isLoading,
                   moduleContainer, containerObserver, attached, innerHTML, subscribed,
                   hist, hidx, bqueue, task, stack>>

\* framework.unregisterModule(name): the entry is deleted and
\* module:unregistered is emitted when the name is registered, and nothing
\* happens otherwise
UnregisterModule(name) ==
    /\ LoopIdle
    /\ IF has(modules, name)
       THEN /\ modules' = [n \in DOMAIN modules \ {name} |-> modules[n]]
            /\ Do(<<Hook("user", "unregisterModule", name),
                    Emit("user", "module:unregistered", <<>>, name)>>)
       ELSE /\ Do(<<Hook("user", "unregisterModule", name)>>)
            /\ UNCHANGED modules
    /\ UNCHANGED <<config, routes, currentRoute, currentModule, isStarted, isLoading,
                   moduleContainer, containerObserver, attached, innerHTML, subscribed,
                   hist, hidx, bqueue, task, stack>>

\* framework.loadModule(name), called by the application
LoadModule(t, name) ==
    /\ LoopIdle
    /\ task[t].pc = "idle"
    /\ task' = [task EXCEPT ![t] = enteredLoad(name, "return")]
    /\ stack' = <<t>>
    /\ UNCHANGED <<busVars, trace, config, routes, currentRoute, modules,
                   currentModule, isStarted, isLoading, moduleContainer,
                   containerObserver, attached, innerHTML, subscribed, hist, hidx,
                   bqueue>>

\* the modules a dynamic import of <moduleBase><name>.js finds, and what it
\* exports
ModuleFiles == {"lazy"}
importedModule(name) == [NoModule EXCEPT !.name = name, !.render = TRUE]

\* document.querySelector(config.container) finds the mount target
ContainerInDocument == attached

\* isContainerValid(): a container is held and it is connected to the document
isContainerValid == moduleContainer # Null /\ attached

\* getContainer(): the container, re-initialized when it is not valid
containerItems(t) ==
    IF isContainerValid THEN <<>>
    ELSE IF ContainerInDocument THEN <<Emit(t, "container:reinitialized", <<>>, "")>>
    ELSE <<Emit(t, "container:error", <<>>, "")>>

containerAfter == IF isContainerValid THEN moduleContainer
                  ELSE IF ContainerInDocument THEN "#app" ELSE Null

\* initializeContainer() disconnects the observer it has and, when it finds
\* the container, connects a new one to the container's parent
observerAfter == IF isContainerValid THEN containerObserver ELSE ContainerInDocument

\* loadModule: showLoading(true), then the module is looked up
LoadBegin(t) ==
    /\ Running(t)
    /\ task[t].pc = "load"
    /\ isLoading' = TRUE
    /\ Do(<<Emit(t, "loading:change", <<>>, "true")>>)
    /\ IF has(modules, task[t].name)
       THEN /\ task' = [task EXCEPT ![t] = [@ EXCEPT !.pc = "load:beforeMount",
                                                     !.module = modules[task[t].name]]]
            /\ UNCHANGED stack
       ELSE IF config.lazy
            THEN Suspend(t, IF task[t].name \in ModuleFiles THEN "imported" ELSE "null",
                         "load:imported", "load:imported")
            ELSE Goto(t, "load:catch") /\ UNCHANGED stack
    /\ UNCHANGED <<config, routes, currentRoute, modules, currentModule, isStarted,
                   moduleContainer, containerObserver, attached, innerHTML, subscribed,
                   hist, hidx, bqueue>>

\* dynamicImport returned: the imported module is registered, or there is none
LoadImported(t) ==
    /\ Running(t)
    /\ task[t].pc = "load:imported"
    /\ IF task[t].settled = "imported"
       THEN /\ modules' = modulesSet(modules, task[t].name, importedModule(task[t].name))
            /\ Do(<<Emit(t, "module:registered", <<>>, task[t].name)>>)
            /\ task' = [task EXCEPT ![t] =
                           [@ EXCEPT !.pc = "load:beforeMount",
                                     !.module = importedModule(task[t].name)]]
       ELSE /\ Goto(t, "load:catch")
            /\ UNCHANGED <<modules, busVars, trace>>
    /\ UNCHANGED <<stack, config, routes, currentRoute, currentModule, isStarted,
                   isLoading, moduleContainer, containerObserver, attached, innerHTML,
                   subscribed, hist, hidx, bqueue>>

\* a hook of the module being loaded is called and awaited, if it is defined;
\* o is what the hook does
LoadHook(t, pc, defined, op, name, next, o) ==
    /\ Running(t)
    /\ task[t].pc = pc
    /\ IF defined
       THEN Do(<<Item(t, op, name, <<>>, <<>>, o)>>) /\ Suspend(t, o, next, "load:catch")
       ELSE Goto(t, next) /\ UNCHANGED <<stack, busVars, trace>>
    /\ UNCHANGED <<config, routes, currentRoute, modules, currentModule, isStarted,
                   isLoading, moduleContainer, containerObserver, attached, innerHTML,
                   subscribed, hist, hidx, bqueue>>

LoadBeforeMount(t, o) ==
    LoadHook(t, "load:beforeMount", task[t].module.beforeMount, "beforeMount",
             task[t].name, "load:destroy", o)

LoadDestroy_Skip(t, o) ==
    LoadHook(t, "load:destroy", FALSE, "destroy", currentModule.name, "load:render", o)

\* if (this.currentModule && this.currentModule.destroy) await destroy()
LoadDestroy(t, o) ==
    LoadHook(t, "load:destroy", currentModule.name # Null /\ currentModule.destroy,
             "destroy", currentModule.name, "load:render", o)

\* getContainer(), container.innerHTML = '', await module.render(...)
LoadRender(t, o) ==
    /\ Running(t)
    /\ task[t].pc = "load:render"
    /\ moduleContainer' = containerAfter
    /\ containerObserver' = observerAfter
    /\ IF containerAfter = Null
       THEN /\ Do(containerItems(t))
            /\ Goto(t, "load:catch")
            /\ UNCHANGED <<stack, innerHTML>>
       ELSE /\ Do(containerItems(t) \o <<Hook(t, "clear", task[t].name),
                                         Item(t, "render", task[t].name, <<>>, <<>>, o)>>)
            /\ innerHTML' = IF o = "ok" THEN "module:" \o task[t].name ELSE ""
            /\ Suspend(t, o, "load:afterMount", "load:catch")
    /\ UNCHANGED <<config, attached, routes, currentRoute, modules, currentModule,
                   isStarted, isLoading, subscribed, hist, hidx, bqueue>>

LoadAfterMount(t, o) ==
    LoadHook(t, "load:afterMount", task[t].module.afterMount, "afterMount",
             task[t].name, "load:current", o)

LoadReturn_Rethrow(t, outcome) ==
    IF task[t].ret = "handler"
    THEN Suspend(t, IF outcome = "loadFailed" THEN "throw" ELSE "ok", "handler", "failed")
    ELSE Finish(t, outcome)

\* loadModule returns: its caller awaits it (handleRoute) or does not
LoadReturn(t, outcome) ==
    IF task[t].ret = "handler" THEN Suspend(t, "ok", "handler", "handler")
    ELSE Finish(t, outcome)

LoadCurrent_KeepCurrent(t) ==
    /\ Running(t)
    /\ task[t].pc = "load:current"
    /\ isLoading' = FALSE
    /\ Do(<<Emit(t, "module:load", <<>>, task[t].name),
            Emit(t, "loading:change", <<>>, "false")>>)
    /\ LoadReturn(t, "loaded")
    /\ UNCHANGED <<config, routes, currentRoute, modules, currentModule, isStarted,
                   moduleContainer, containerObserver, attached, innerHTML, subscribed,
                   hist, hidx, bqueue>>

\* this.currentModule = module, module:load, and finally showLoading(false)
LoadCurrent(t) ==
    /\ Running(t)
    /\ task[t].pc = "load:current"
    /\ currentModule' = task[t].module
    /\ isLoading' = FALSE
    /\ Do(<<Hook(t, "currentModule", task[t].name),
            Emit(t, "module:load", <<>>, task[t].name),
            Emit(t, "loading:change", <<>>, "false")>>)
    /\ LoadReturn(t, "loaded")
    /\ UNCHANGED <<config, routes, currentRoute, modules, isStarted, moduleContainer,
                   containerObserver, attached, innerHTML, subscribed, hist, hidx,
                   bqueue>>

LoadCatch_Silent(t) ==
    /\ Running(t)
    /\ task[t].pc = "load:catch"
    /\ isLoading' = FALSE
    /\ Do(<<Emit(t, "loading:change", <<>>, "false")>>)
    /\ LoadReturn(t, "loadFailed")
    /\ UNCHANGED <<config, routes, currentRoute, modules, currentModule, isStarted,
                   moduleContainer, containerObserver, attached, innerHTML, subscribed,
                   hist, hidx, bqueue>>

LoadCatch_KeepLoading(t) ==
    /\ Running(t)
    /\ task[t].pc = "load:catch"
    /\ moduleContainer' = containerAfter
    /\ containerObserver' = observerAfter
    /\ innerHTML' = IF containerAfter = Null THEN innerHTML ELSE "error"
    /\ Do(<<Emit(t, "module:error", <<>>, task[t].name)>> \o containerItems(t)
          \o <<Hook(t, "showError", task[t].name),
               Emit(t, "error", <<>>, task[t].name)>>)
    /\ LoadReturn(t, "loadFailed")
    /\ UNCHANGED <<config, attached, routes, currentRoute, modules, currentModule,
                   isStarted, isLoading, subscribed, hist, hidx, bqueue>>

\* catch (error): module:error and showError, which renders the error panel
\* into the container (or over the document when there is none) and emits
\* error; finally showLoading(false)
LoadCatch(t) ==
    /\ Running(t)
    /\ task[t].pc = "load:catch"
    /\ moduleContainer' = containerAfter
    /\ containerObserver' = observerAfter
    /\ innerHTML' = IF containerAfter = Null THEN innerHTML ELSE "error"
    /\ isLoading' = FALSE
    /\ Do(<<Emit(t, "module:error", <<>>, task[t].name)>> \o containerItems(t)
          \o <<Hook(t, "showError", task[t].name),
               Emit(t, "error", <<>>, task[t].name),
               Emit(t, "loading:change", <<>>, "false")>>)
    /\ LoadReturn(t, "loadFailed")
    /\ UNCHANGED <<config, attached, routes, currentRoute, modules, currentModule,
                   isStarted, subscribed, hist, hidx, bqueue>>

----------------------------------------------------------------------------
(* MicroFramework.start and the browser's back and forward buttons *)

Start_NoGuard ==
    LET n == freeTask(NavTasks)
        path == getCurrentRoute(config, location)
    IN  /\ LoopIdle
        /\ task["start"].pc \in {"idle", "done"}
        /\ ContainerInDocument
        /\ task[n].pc = "idle"
        /\ moduleContainer' = "#app"
        /\ containerObserver' = TRUE
        /\ subscribed' = subscribed \cup
               {IF config.mode = "history" THEN "popstate" ELSE "hashchange", "click"}
        /\ task' = [task EXCEPT !["start"] = [IdleTask EXCEPT !.pc = "start:ready"],
                                ![n] = enteredNavigate(path, TRUE, "start")]
        /\ stack' = <<n, "start">>
        /\ Do(<<Hook("start", "initializeContainer", ""), resolveItem(n, path)>>)
        /\ UNCHANGED <<config, attached, routes, currentRoute, modules, currentModule,
                       isStarted, isLoading, innerHTML, hist, hidx, bqueue>>

\* start(): a warning and nothing else when started; else the container is
\* resolved (start throws when it is not found), the router and the click
\* listener subscribe, and the initial navigation is called (not awaited)
Start ==
    /\ LoopIdle
    /\ task["start"].pc \in {"idle", "done"}
    /\ IF isStarted
       THEN /\ Do(<<Hook("start", "warn", "already started")>>)
            /\ UNCHANGED <<task, stack, moduleContainer, containerObserver, subscribed>>
       ELSE IF ~ContainerInDocument
       THEN /\ task' = [task EXCEPT !["start"] = [@ EXCEPT !.pc = "done",
                                                          !.outcome = "threw"]]
            /\ moduleContainer' = Null
            /\ containerObserver' = FALSE
            /\ UNCHANGED <<busVars, trace, subscribed, stack>>
       ELSE LET n == freeTask(NavTasks)
                path == getCurrentRoute(config, location)
            IN  /\ task[n].pc = "idle"
                /\ moduleContainer' = "#app"
                /\ containerObserver' = TRUE
                /\ subscribed' = subscribed \cup
                       {IF config.mode = "history" THEN "popstate" ELSE "hashchange",
                        "click"}
                /\ task' = [task EXCEPT !["start"] = [IdleTask EXCEPT !.pc = "start:ready"],
                                        ![n] = enteredNavigate(path, TRUE, "start")]
                /\ stack' = <<n, "start">>
                /\ Do(<<Hook("start", "initializeContainer", ""), resolveItem(n, path)>>)
    /\ UNCHANGED <<config, attached, routes, currentRoute, modules, currentModule,
                   isStarted, isLoading, innerHTML, hist, hidx, bqueue>>

\* start() after handleInitialRoute() has returned
StartReady ==
    /\ Running("start")
    /\ task["start"].pc = "start:ready"
    /\ isStarted' = TRUE
    /\ Do(<<Emit("start", "framework:ready", <<>>, "")>>)
    /\ Finish("start", "started")
    /\ UNCHANGED <<config, routes, currentRoute, modules, currentModule, isLoading,
                   moduleContainer, containerObserver, attached, innerHTML, subscribed,
                   hist, hidx, bqueue>>

\* the events a traversal of the session history from URL a to URL b fires
traversalEvents(a, b) ==
    <<"popstate">> \o (IF a.hash # b.hash THEN <<"hashchange">> ELSE <<>>)

\* the user goes d entries forward (d = 1) or back (d = -1)
Traverse(d) ==
    /\ LoopIdle
    /\ hidx + d \in 1..Len(hist)
    /\ hidx' = hidx + d
    /\ bqueue' = bqueue \o traversalEvents(hist[hidx], hist[hidx + d])
    /\ UNCHANGED <<busVars, trace, config, routes, currentRoute, modules,
                   currentModule, isStarted, isLoading, moduleContainer,
                   containerObserver, attached, innerHTML, subscribed, hist, task,
                   stack>>

Back == Traverse(-1)
Forward == Traverse(1)

\* the browser delivers the next event; handleRouteChange, if subscribed to
\* it, navigates to getCurrentRoute() with skipHistory
HandleRouteChange ==
    /\ LoopIdle
    /\ bqueue # <<>>
    /\ Head(bqueue) # "recovery"
    /\ bqueue' = Tail(bqueue)
    /\ IF Head(bqueue) \in subscribed
       THEN LET n == freeTask(NavTasks)
                path == getCurrentRoute(config, location)
            IN  /\ task[n].pc = "idle"
                /\ task' = [task EXCEPT ![n] = enteredNavigate(path, TRUE, Head(bqueue))]
                /\ stack' = <<n>>
                /\ Do(<<resolveItem(n, path)>>)
       ELSE UNCHANGED <<busVars, trace, task, stack>>
    /\ UNCHANGED <<config, routes, currentRoute, modules, currentModule, isStarted,
                   isLoading, moduleContainer, containerObserver, attached, innerHTML,
                   subscribed, hist, hidx>>

----------------------------------------------------------------------------
(* The mount target in the document, and MicroFramework.destroy *)

\* The page removes the mount target from the document.  When the removal is
\* one the connected observer is told of and names the held container, the
\* observer's callback emits container:removed, drops the container and,
\* when the framework is started, sets the recovery timer.
DetachContainer(observed) ==
    /\ LoopIdle
    /\ attached
    /\ attached' = FALSE
    /\ IF observed /\ containerObserver /\ moduleContainer # Null
       THEN /\ moduleContainer' = Null
            /\ Do(<<Emit("observer", "container:removed", <<>>, "")>>)
            /\ bqueue' = IF isStarted THEN Append(bqueue, "recovery") ELSE bqueue
       ELSE UNCHANGED <<busVars, trace, moduleContainer, bqueue>>
    /\ UNCHANGED <<config, routes, currentRoute, modules, currentModule, isStarted,
                   isLoading, containerObserver, innerHTML, subscribed, hist, hidx,
                   task, stack>>

\* The page puts the mount target back
AttachContainer ==
    /\ LoopIdle
    /\ ~attached
    /\ attached' = TRUE
    /\ UNCHANGED <<busVars, trace, config, routes, currentRoute, modules, currentModule,
                   isStarted, isLoading, moduleContainer, containerObserver, innerHTML,
                   subscribed, hist, hidx, bqueue, task, stack>>

\* attemptContainerRecovery(), when the timer fires: the container is
\* resolved again, the current module is rendered into it (o is what its
\* render does) and container:recovered is emitted; container:recovery_failed
\* when any of this throws
ContainerRecovery(o) ==
    LET rendered == currentModule.render
        items == IF ~ContainerInDocument
                 THEN <<Emit("recovery", "container:recovery_failed", <<>>, "")>>
                 ELSE <<Hook("recovery", "initializeContainer", "")>>
                      \o (IF rendered
                          THEN <<Item("recovery", "render", currentModule.name, <<>>, <<>>, o)>>
                          ELSE <<>>)
                      \o (IF rendered /\ o = "throw"
                          THEN <<Emit("recovery", "container:recovery_failed", <<>>, "")>>
                          ELSE <<Emit("recovery", "container:recovered", <<>>, "")>>)
    IN  /\ LoopIdle
        /\ bqueue # <<>>
        /\ Head(bqueue) = "recovery"
        /\ bqueue' = Tail(bqueue)
        /\ moduleContainer' = IF ContainerInDocument THEN "#app" ELSE Null
        /\ containerObserver' = ContainerInDocument
        /\ innerHTML' = IF ContainerInDocument /\ rendered /\ o = "ok"
                        THEN "module:" \o currentModule.name ELSE innerHTML
        /\ Do(items)
        /\ UNCHANGED <<config, attached, routes, currentRoute, modules, currentModule,
                       isStarted, isLoading, subscribed, hist, hidx, task, stack>>

moduleAfterDestroy_Reset == NoModule

\* destroy() reads moduleManager.getCurrentModule() and assigns nothing to
\* moduleManager.currentModule
moduleAfterDestroy == currentModule

destroyRaises_RenderUnguarded(o) ==
    (currentModule.destroy /\ o = "throw") \/ containerAfter = Null

\* destroy() raises what the current module's destroy hook throws: the hook
\* is called outside any try block.  What render('') throws is caught.
destroyRaises(o) == currentModule.destroy /\ o = "throw"

\* what destroy() does before it clears the listener map: the browser
\* listeners are removed, the current module's destroy hook is called (not
\* awaited) and render('') empties the container getContainer() returns
destroyItems(o) ==
    <<Hook("destroy", "removeListeners", "")>>
    \o (IF currentModule.destroy
        THEN <<Item("destroy", "destroy", currentModule.name, <<>>, <<>>, o)>>
        ELSE <<>>)
    \o (IF destroyRaises(o) THEN <<Hook("destroy", "raise", "")>>
        ELSE containerItems("destroy")
             \o (IF containerAfter # Null THEN <<Hook("destroy", "clear", "")>> ELSE <<>>))

\* destroy(): the listeners of the browser are removed and the observer is
\* disconnected, the current module's destroy hook is called (o is what it
\* does), render('') is tried, the listener map is cleared, the container is
\* dropped, isStarted is reset and framework:destroyed is emitted, in this
\* order
Destroy(o) ==
    /\ LoopIdle
    /\ subscribed' = {}
    /\ IF destroyRaises(o)
       THEN /\ containerObserver' = FALSE
            /\ Do(destroyItems(o))
            /\ UNCHANGED <<moduleContainer, innerHTML, isStarted>>
       ELSE /\ trace' = trace \o destroyItems(o)
                             \o <<Emit("destroy", "framework:destroyed", <<>>, "")>>
            /\ LET bus == emitAll(destroyItems(o), 1,
                                  [history |-> eventHistory, n |-> emitCount,
                                   calls |-> calls, threw |-> emitThrew])
                   data == EventData(Emit("destroy", "framework:destroyed", <<>>, ""))
                   raw == emitRaw(<<>>, "framework:destroyed", data, bus.n + 1)
               IN  /\ eventHistory' = addToHistory(bus.history, bus.n,
                                                   "framework:destroyed", data, "framework")
                   /\ emitCount' = bus.n + 1
                   /\ calls' = bus.calls \o raw.calls
                   /\ emitThrew' = (bus.threw \/ raw.threw)
            /\ eventListeners' = <<>>
            /\ UNCHANGED ftask
            /\ containerObserver' = (~isContainerValid /\ ContainerInDocument)
            /\ moduleContainer' = Null
            /\ innerHTML' = IF containerAfter # Null THEN "" ELSE innerHTML
            /\ isStarted' = FALSE
    /\ currentModule' = moduleAfterDestroy
    /\ UNCHANGED <<config, attached, routes, currentRoute, modules, isLoading, hist,
                   hidx, bqueue, task, stack>>

----------------------------------------------------------------------------
(* Route resolution: routes are registered, then a path is navigated to *)

MaxRegs == 3

\* the patterns registered and the paths navigated to
RoutePaths ==
    { <<"/">>, <<"/", "a">>, <<"/", ":", "x">>, <<"/", ":", "y">>,
      <<"/", "a", "/", "a">>, <<"/", "a", "/", ":", "x">>, <<"/", ":", "x", "/", "a">>,
      <<"/", ":", "x", "/", ":", "y">>, <<"/", ":", "x", "/", ":", "x">> }

\* the handler of the k-th registration: each call registers its own function
RegHandlers == <<"h1", "h2", "h3", "h4">>

fnOptions(h) == [handler |-> h, module |-> Null, beforeEnter |-> Null,
                 afterEnter |-> Null]

\* the route:registered records of the history, by position
Registrations == {r \in 1..Len(eventHistory) : eventHistory[r].name = "route:registered"}

NextRoute ==
    \/ /\ Cardinality(Registrations) < MaxRegs
       /\ task["n1"].pc = "idle"
       /\ \E p \in RoutePaths :
             RegisterRoute(p, fnOptions(RegHandlers[Cardinality(Registrations) + 1]))
    \/ \E p \in RoutePaths : Navigate("n1", p, FALSE)
    \/ GuardGlobal("n1", "true")
    \/ GuardRoute("n1", "true")
    \/ UpdateUrl("n1")
    \/ HandleRoute("n1")
    \/ \E o \in Outcomes : Handler("n1", o)
    \/ Resume("n1")
    \/ Settle("n1", "ok", "ok")
    \/ Failed("n1")
    \/ NotFound("n1", "ok")

InitRoute == Init(DefaultConfig)

SpecRoute == InitRoute /\ [][NextRoute]_vars

\* the navigation of task t has resolved its route
HasResolved(t) == task[t].pc # "idle"

\* the positions of the records of the registrations under the key path
RegistrationsOf(path) == {r \in Registrations : eventHistory[r].data.path = path}

FirstRegistration(path) ==
    CHOOSE r \in RegistrationsOf(path) : \A q \in RegistrationsOf(path) : r <= q

LastRegistration(path) ==
    CHOOSE r \in RegistrationsOf(path) : \A q \in RegistrationsOf(path) : r >= q

\* C1: a navigation to a path that is the key of a registered route resolves
\* to that route, as it was last registered under the key, with empty
\* params, whatever patterns were registered before it.
ExactMatchPrecedence ==
    \A t \in NavTasks :
        (HasResolved(t) /\ RegistrationsOf(task[t].path) # {}) =>
            /\ task[t].route.found
            /\ task[t].route.path = task[t].path
            /\ task[t].route.params = {}
            /\ task[t].route.handler =
                   eventHistory[LastRegistration(task[t].path)].data.name

\* '/a' resolved to the route registered under '/a' although the pattern
\* '/:x', registered before it, matches '/a' too
ExactOverEarlierPatternWitness ==
    /\ HasResolved("n1")
    /\ task["n1"].path = <<"/", "a">>
    /\ Len(routes) >= 2
    /\ routes[1].path = <<"/", ":", "x">>
    /\ routes[2].path = <<"/", "a">>
    /\ task["n1"].route.path = <<"/", "a">>
    /\ task["n1"].route.handler = "h2"
    /\ task["n1"].pc = "done"

\* a segment that is a parameter, and its name
IsParam(seg) == seg # <<>> /\ seg[1] = ":"
ParamName(seg) == SubSeq(seg, 2, Len(seg))

\* pattern and path have the same number of segments and every segment of
\* the pattern that is not a parameter equals the segment of the path
SegmentsAgree(pattern, path) ==
    LET ps == split(pattern)
        as == split(path)
    IN  /\ Len(ps) = Len(as)
        /\ \A i \in 1..Len(ps) : ~IsParam(ps[i]) => ps[i] = as[i]

\* the value the pattern gives the parameter of its i-th segment: the segment
\* of the path at the position where the name occurs (last, if it is repeated)
BoundAt(pattern, path, i) ==
    LET ps == split(pattern)
        j == CHOOSE j \in i..Len(ps) :
                 /\ ps[j] = ps[i]
                 /\ \A k \in (j + 1)..Len(ps) : ps[k] # ps[i]
    IN  <<ParamName(ps[i]), split(path)[j]>>

\* C2: matchRoute accepts a pattern for a path exactly when both have the
\* same number of segments and the literal segments are equal; on a match
\* params holds, for every parameter segment, the path segment at its
\* position, and nothing else.  Checked for every registered pattern against
\* the path navigated to, and for the params of the route resolved.
PatternMatching ==
    \A t \in NavTasks :
        HasResolved(t) =>
            /\ \A i \in 1..Len(routes) :
                   LET pattern == routes[i].path
                       m == matchRoute(pattern, task[t].path)
                       ps == split(pattern)
                   IN  /\ m.matched <=> SegmentsAgree(pattern, task[t].path)
                       /\ Len(ps) # Len(split(task[t].path)) => ~m.matched
                       /\ m.matched =>
                              m.params = {BoundAt(pattern, task[t].path, k) :
                                             k \in {k \in 1..Len(ps) : IsParam(ps[k])}}
            /\ (task[t].route.found /\ task[t].route.path # task[t].path) =>
                   /\ SegmentsAgree(task[t].route.path, task[t].path)
                   /\ task[t].route.params =
                          matchRoute(task[t].route.path, task[t].path).params

\* '/a/a' resolved through the pattern '/a/:x' with params.x = 'a', while the
\* pattern '/:x', of another length, is registered too
PatternBindsWitness ==
    /\ HasResolved("n1")
    /\ task["n1"].path = <<"/", "a", "/", "a">>
    /\ Len(routes) = 2
    /\ routes[1].path = <<"/", ":", "x">>
    /\ routes[2].path = <<"/", "a", "/", ":", "x">>
    /\ task["n1"].route.path = <<"/", "a", "/", ":", "x">>
    /\ task["n1"].route.params = {<< <<"x">>, <<"a">> >>}
    /\ task["n1"].pc = "done"

\* the registered patterns that match the path
MatchingKeys(path) ==
    {routes[i].path : i \in {i \in 1..Len(routes) : SegmentsAgree(routes[i].path, path)}}

\* C3: a navigation to a path that is no route's key resolves to the
\* matching pattern that was registered first; when no pattern matches, no
\* route is resolved and the navigation goes to handle404 and nowhere else.
FirstRegisteredPatternWins ==
    \A t \in NavTasks :
        (HasResolved(t) /\ RegistrationsOf(task[t].path) = {}) =>
            IF MatchingKeys(task[t].path) # {}
            THEN /\ task[t].route.found
                 /\ task[t].route.path \in MatchingKeys(task[t].path)
                 /\ \A k \in MatchingKeys(task[t].path) :
                        FirstRegistration(task[t].route.path) <= FirstRegistration(k)
            ELSE /\ ~task[t].route.found
                 /\ task[t].pc \in {"notFound", "done"}
                 /\ \A k \in 1..Len(trace) :
                        trace[k].t = t => trace[k].op \in {"resolve", "notFoundHandler"}
                 /\ task[t].pc = "done" =>
                        \E k \in 1..Len(trace) :
                            trace[k].t = t /\ trace[k].op = "notFoundHandler"

\* '/a' resolved to '/:y', registered before '/:x' and registered again
\* after it
FirstOfTwoPatternsWitness ==
    /\ HasResolved("n1")
    /\ task["n1"].path = <<"/", "a">>
    /\ Len(routes) = 2
    /\ routes[1].path = <<"/", ":", "y">>
    /\ routes[2].path = <<"/", ":", "x">>
    /\ Cardinality(Registrations) = 3
    /\ task["n1"].route.path = <<"/", ":", "y">>
    /\ task["n1"].route.handler = "h3"
    /\ task["n1"].pc = "done"

----------------------------------------------------------------------------
(* Navigation: a module and two routes are registered, the framework is    *)
(* started, and paths are navigated to one after the other, by navigate()  *)
(* and by the back and forward buttons                                     *)

BareModule == [NoModule EXCEPT !.render = TRUE]
FullModule == [NoModule EXCEPT !.render = TRUE, !.beforeMount = TRUE,
                               !.afterMount = TRUE, !.destroy = TRUE]

\* the framework with both global hooks, in history and in hash mode, and
\* the framework without hooks
NavConfigs ==
    { [DefaultConfig EXCEPT !.beforeEnter = "g", !.afterEnter = "ga"],
      [DefaultConfig EXCEPT !.beforeEnter = "g", !.afterEnter = "ga", !.mode = "hash"],
      DefaultConfig }

HomePath == <<"/">>
PagePath == <<"/", "a">>

\* the route of the page: a module, a handler and both hooks
PageOptions == [handler |-> "h2", module |-> "A", beforeEnter |-> "rg",
                afterEnter |-> "ra"]

NavGuardResults == {"true", "false", "promise:false", "throw"}

\* no call has been made yet
SettingUp == \A t \in Tasks : task[t].pc = "idle"

\* the module and the two routes are registered
SetUp == has(modules, "A") /\ routesHas(routes, HomePath) /\ routesHas(routes, PagePath)

\* no navigation is under way
Quiet == LoopIdle /\ \A t \in NavTasks : task[t].pc \in {"idle", "done"}

NextNav ==
    \/ SettingUp /\ ~has(modules, "A") /\ RegisterModule("A", BareModule, "ok")
    \/ /\ SettingUp /\ has(modules, "A") /\ ~routesHas(routes, HomePath)
       /\ RegisterRoute(HomePath, fnOptions("h1"))
    \/ /\ SettingUp /\ routesHas(routes, HomePath) /\ ~routesHas(routes, PagePath)
       /\ RegisterRoute(PagePath, PageOptions)
    \/ SetUp /\ Quiet /\ ~isStarted /\ Start
    \/ StartReady
    \/ /\ isStarted /\ Quiet
       /\ \E p \in {HomePath, PagePath}, skip \in BOOLEAN :
             Navigate(freeTask(NavTasks), p, skip)
    \/ Quiet /\ bqueue = <<>> /\ Back
    \/ Quiet /\ bqueue = <<>> /\ Forward
    \/ Quiet /\ HandleRouteChange
    \/ \E t \in NavTasks :
          \/ \E r \in NavGuardResults : GuardGlobal(t, r)
          \/ CheckGlobal(t)
          \/ \E r \in NavGuardResults : GuardRoute(t, r)
          \/ CheckRoute(t)
          \/ Rejected(t)
          \/ UpdateUrl(t)
          \/ HandleRoute(t)
          \/ LoadBegin(t)
          \/ LoadBeforeMount(t, "ok")
          \/ LoadDestroy(t, "ok")
          \/ LoadRender(t, "ok")
          \/ LoadAfterMount(t, "ok")
          \/ LoadCurrent(t)
          \/ Handler(t, "ok")
          \/ Settle(t, "ok", "ok")
          \/ Resume(t)

InitNav == \E options \in NavConfigs : Init(options)

SpecNav == InitNav /\ [][NextNav]_vars

\* what task t called and emitted, in order
ItemsOf(t) == SelectSeq(trace, LAMBDA x : x.t = t)

\* the guard called at position i of the trace returned false, directly or
\* as the value of its promise
ReturnedFalse(i) ==
    trace[i].op = "beforeEnter" /\ trace[i].arg \in {"false", "promise:false"}

\* the guard calls of navigation t that returned false
FalseGuards(t) == {i \in 1..Len(trace) : trace[i].t = t /\ ReturnedFalse(i)}

\* no navigation was entered after position i of the trace
NoNavigationSince(i) == \A k \in (i + 1)..Len(trace) : trace[k].op # "resolve"

\* C4: once a beforeEnter guard of a navigation has returned false, the
\* navigation calls and emits nothing more (no render, no handler, no
\* event), ends cancelled, and, until another navigation is entered,
\* currentRoute is the route it was when navigate() was called and the
\* history has no record of route:change, route:error, loading:change or
\* module:load that is newer than the call.
GuardFalseAbortsSilently ==
    \A t \in NavTasks : \A i \in FalseGuards(t) :
        /\ \A k \in (i + 1)..Len(trace) : trace[k].t # t
        /\ task[t].pc \in {"await", "checkGlobal", "checkRoute", "done"}
        /\ task[t].pc = "done" => task[t].outcome = "cancelled"
        /\ NoNavigationSince(i) =>
               /\ currentRoute = task[t].calledWith.currentRoute
               /\ \A r \in 1..Len(eventHistory) :
                      eventHistory[r].seq > task[t].calledWith.emitCount =>
                          eventHistory[r].name \notin
                              {"route:change", "route:error", "loading:change",
                               "module:load", "module:error", "route:404"}

\* a navigation to the page, whose global guard let it pass and whose route
\* guard resolved to false, has returned; the current route is still home
RouteGuardFalseWitness ==
    \E t \in NavTasks :
        /\ task[t].pc = "done"
        /\ task[t].outcome = "cancelled"
        /\ task[t].path = PagePath
        /\ currentRoute.found
        /\ currentRoute.path = HomePath
        /\ \E i \in FalseGuards(t) :
               /\ trace[i].name = "route"
               /\ trace[i].arg = "promise:false"
               /\ NoNavigationSince(i)
        /\ \E k \in 1..Len(trace) :
               trace[k].t = t /\ trace[k].name = "global" /\ trace[k].arg = "true"

\* navigation t returns in this step
Returns(t) == task[t].pc # "done" /\ task[t]'.pc = "done"

\* C5 (as the code has it): a navigation one of whose guards returned false
\* writes no location; when it returns, the session history and the
\* position in it are what they were when navigate() was called.
AbortedNavigationWritesNoLocation ==
    [][\A t \in NavTasks :
          (Returns(t) /\ FalseGuards(t) # {}) =>
              /\ hist' = task[t].calledWith.hist
              /\ hidx' = task[t].calledWith.hidx
              /\ \A k \in 1..Len(trace') :
                     trace'[k].t = t => trace'[k].op # "updateBrowserUrl"]_vars

\* the back button took the location from the page to home and the
\* navigation that followed was aborted by the global guard: the location
\* read is home, the current route is the page
AbortedBackWitness ==
    \E t \in NavTasks :
        /\ task[t].pc = "done"
        /\ task[t].outcome = "cancelled"
        /\ task[t].calledWith.origin \in {"popstate", "hashchange"}
        /\ FalseGuards(t) # {}
        /\ hist = task[t].calledWith.hist
        /\ hidx = task[t].calledWith.hidx
        /\ currentRoute.path = PagePath
        /\ getCurrentRoute(config, location) = HomePath

\* every navigate() call of the application so far asked for the location
\* to be written
NoSkippedWrites ==
    \A u \in NavTasks : task[u].calledWith.origin = "navigate" => ~task[u].skipHistory

\* C5 as claimed: when a navigation aborted by a guard returns, the
\* location read by getCurrentRoute() is the path of the current route
LocationIsCurrentRouteAfterAbort ==
    [][\A t \in NavTasks :
          (Returns(t) /\ FalseGuards(t) # {} /\ currentRoute.found /\ NoSkippedWrites) =>
              getCurrentRoute(config, location') = currentRoute'.path]_vars

\* the stage of the navigation an entry of the trace belongs to
Stage(x) ==
    CASE x.op = "resolve" -> 1
      [] x.op = "beforeEnter" /\ x.name = "global" -> 2
      [] x.op = "beforeEnter" /\ x.name = "route" -> 3
      [] x.op = "updateBrowserUrl" -> 4
      [] x.op \in {"handler", "template"} -> 6
      [] x.op = "afterEnter" /\ x.name = "route" -> 7
      [] x.op = "afterEnter" /\ x.name = "global" -> 8
      [] x.op = "currentRoute" -> 9
      [] x.op = "emit" /\ x.name = "route:change" -> 10
      [] OTHER -> 5

\* the entries of stage n among the items
InStage(items, n) == {k \in 1..Len(items) : Stage(items[k]) = n}

\* C6: the steps of a navigation are in the order resolution, global guard,
\* route guard, location update, module load, handler, route afterEnter,
\* global afterEnter, currentRoute, route:change; a navigation that
\* succeeded has taken each step that applies once (the location update
\* unless skipHistory, the load when the route names a module, the hooks
\* that exist) and its load ended with module:load; no route guard is
\* called after a global guard that returned false; the afterEnter hooks are
\* given the route that was current when navigate() was called.
NavigationStepOrder ==
    \A t \in NavTasks :
        LET items == ItemsOf(t)
            route == task[t].route
            once(n, applies) ==
                Cardinality(InStage(items, n)) = IF applies THEN 1 ELSE 0
        IN  /\ \A k \in 1..(Len(items) - 1) :
                   \/ Stage(items[k]) < Stage(items[k + 1])
                   \/ Stage(items[k]) = 5 /\ Stage(items[k + 1]) = 5
            /\ \A i \in FalseGuards(t) :
                   trace[i].name = "global" => InStage(items, 3) = {}
            /\ \A k \in 1..Len(items) :
                   items[k].op = "afterEnter" =>
                       items[k].from = task[t].calledWith.currentRoute.path
            /\ (task[t].pc = "done" /\ task[t].outcome = "settled") =>
                   /\ once(1, TRUE)
                   /\ once(2, config.beforeEnter # Null)
                   /\ once(3, route.beforeEnter # Null)
                   /\ once(4, ~task[t].skipHistory)
                   /\ (InStage(items, 5) # {}) <=> (route.module # Null)
                   /\ route.module # Null =>
                          \E k \in InStage(items, 5), m \in InStage(items, 5) :
                              /\ k < m
                              /\ items[k].op = "render" /\ items[k].name = route.module
                              /\ items[m].op = "emit" /\ items[m].name = "module:load"
                   /\ once(6, route.handler # Null)
                   /\ once(7, route.afterEnter # Null)
                   /\ once(8, config.afterEnter # Null)
                   /\ once(9, TRUE)
                   /\ once(10, TRUE)
                   /\ currentRoute.found

\* a navigation to the page that took every step: both guards, the location
\* update, the load of module A, the handler and both afterEnter hooks,
\* which were given home as the previous route
FullNavigationWitness ==
    \E t \in NavTasks :
        /\ task[t].pc = "done"
        /\ task[t].outcome = "settled"
        /\ task[t].path = PagePath
        /\ ~task[t].skipHistory
        /\ task[t].calledWith.currentRoute.path = HomePath
        /\ \A n \in 1..10 : InStage(ItemsOf(t), n) # {}
        /\ currentRoute.path = PagePath
        /\ location = Url(PagePath, <<>>)

----------------------------------------------------------------------------
(* Mounting: modules A and B are registered and modules are loaded one     *)
(* after the other by loadModule()                                         *)

\* the names loadModule is called with: the two modules, a module that is
\* found by dynamic import and a module that is not found at all
LoadNames == {"A", "B", "lazy", "missing"}

\* no load is under way
NoLoad == LoopIdle /\ \A t \in LoadTasks : task[t].pc \in {"idle", "done"}

NextLoad ==
    \/ /\ SettingUp /\ ~has(modules, "A")
       /\ \E m \in {BareModule, FullModule} : RegisterModule("A", m, "ok")
    \/ /\ SettingUp /\ has(modules, "A") /\ ~has(modules, "B")
       /\ \E m \in {BareModule, FullModule} : RegisterModule("B", m, "ok")
    \/ /\ has(modules, "B") /\ NoLoad
       /\ \E name \in LoadNames : LoadModule(freeTask(LoadTasks), name)
    \/ \E t \in LoadTasks :
          \/ LoadBegin(t)
          \/ LoadImported(t)
          \/ \E o \in Outcomes : LoadBeforeMount(t, o)
          \/ \E o \in Outcomes : LoadDestroy(t, o)
          \/ \E o \in Outcomes : LoadRender(t, o)
          \/ \E o \in Outcomes : LoadAfterMount(t, o)
          \/ LoadCurrent(t)
          \/ LoadCatch(t)
          \/ Resume(t)

InitLoad == Init(DefaultConfig)

SpecLoad == InitLoad /\ [][NextLoad]_vars

\* the step of loadModule an entry of the trace belongs to
LoadStage(x) ==
    CASE x.op = "emit" /\ x.name = "loading:change" /\ x.arg = "true" -> 1
      [] x.op = "emit" /\ x.name = "module:registered" -> 2
      [] x.op = "beforeMount" -> 3
      [] x.op = "destroy" -> 4
      [] x.op = "clear" -> 5
      [] x.op = "render" -> 6
      [] x.op = "afterMount" -> 7
      [] x.op = "currentModule" -> 8
      [] x.op = "emit" /\ x.name = "module:load" -> 9
      [] x.op = "emit" /\ x.name = "module:error" -> 10
      [] x.op = "showError" -> 11
      [] x.op = "emit" /\ x.name = "error" -> 12
      [] x.op = "emit" /\ x.name = "loading:change" /\ x.arg = "false" -> 13
      [] OTHER -> 0

\* what load t called and emitted, the container events apart
LoadItems(t) == SelectSeq(ItemsOf(t), LAMBDA x : LoadStage(x) # 0)

\* the positions of the entries with operation op among the items
WithOp(items, op) == {k \in 1..Len(items) : items[k].op = op}

\* C7: the steps of a load are in the order beforeMount, destroy of the
\* module that is current, clearing of the container, render, afterMount,
\* assignment of the current module, module:load.  Each hook runs after the
\* one before it has completed (the load is suspended in between).  A load
\* that calls render has called the destroy hook of the module that was
\* current, if it has one, before; a load that succeeded has called every
\* hook its module defines, and the module is current when it returns.
MountOrder ==
    \A t \in LoadTasks :
        LET items == LoadItems(t)
            before == task[t].calledWith.currentModule
            destroys == before.name # Null /\ before.destroy
        IN  /\ \A k \in 1..(Len(items) - 1) :
                   LoadStage(items[k]) < LoadStage(items[k + 1])
            /\ WithOp(items, "render") # {} =>
                   /\ Cardinality(WithOp(items, "destroy")) = IF destroys THEN 1 ELSE 0
                   /\ \A k \in WithOp(items, "destroy") : items[k].name = before.name
                   /\ Cardinality(WithOp(items, "beforeMount")) =
                          IF task[t].module.beforeMount THEN 1 ELSE 0
                   /\ Cardinality(WithOp(items, "clear")) = 1
                   /\ \A k \in WithOp(items, "render") : items[k].name = task[t].name
            /\ (task[t].pc = "await" /\ task[t].next = "load:afterMount") =>
                   currentModule = before
            /\ (task[t].pc = "done" /\ task[t].outcome = "loaded") =>
                   /\ Cardinality(WithOp(items, "render")) = 1
                   /\ Cardinality(WithOp(items, "afterMount")) =
                          IF task[t].module.afterMount THEN 1 ELSE 0
                   /\ Cardinality(WithOp(items, "currentModule")) = 1
                   /\ \E k \in 1..Len(items) :
                          items[k].op = "emit" /\ items[k].name = "module:load"
                   /\ (\A u \in LoadTasks : u # t => task[u].pc \in {"idle", "done"}
                          /\ task[u].calledWith.emitCount <= task[t].calledWith.emitCount)
                          => currentModule.name = task[t].name

\* module B, with every hook, was loaded while module A, with a destroy
\* hook, was current
LoadOverCurrentWitness ==
    \E t \in LoadTasks :
        /\ task[t].pc = "done"
        /\ task[t].outcome = "loaded"
        /\ task[t].name = "B"
        /\ task[t].calledWith.currentModule.name = "A"
        /\ [k \in 1..Len(LoadItems(t)) |-> << LoadItems(t)[k].op, LoadItems(t)[k].name >>] =
               << <<"emit", "loading:change">>, <<"beforeMount", "B">>,
                  <<"destroy", "A">>, <<"clear", "B">>, <<"render", "B">>,
                  <<"afterMount", "B">>, <<"currentModule", "B">>,
                  <<"emit", "module:load">>, <<"emit", "loading:change">> >>
        /\ currentModule.name = "B"

----------------------------------------------------------------------------
(* The event history: emit, filter and clearEventHistory with no listener *)

MaxRecords == 102

\* How many records other calls may append while a filter() call is suspended
MaxDuringFilter == 1

FilterInFlight(t) == ftask[t].pc \in {"awaiting", "returning"}

NextHistory ==
    \/ /\ emitCount < MaxRecords
       /\ \A t \in FTasks : FilterInFlight(t) => emitCount - ftask[t].id < MaxDuringFilter
       /\ UserEmit("user:event", Num(0))
    \/ emitCount < MaxRecords /\ \E t \in FTasks : FilterCall(t, "user:event", Num(0))
    \/ \E t \in FTasks : FilterReturn(t)
    \/ ClearEventHistory

InitHistory == Init(DefaultConfig)

SpecHistory == InitHistory /\ [][NextHistory]_vars

\* C8: the history never holds more than maxHistorySize records; the records
\* are in emission order and are the most recent ones without a gap (an
\* append to a full history drops the oldest record and nothing else); once
\* maxHistorySize + 1 records were appended the first is gone, and the
\* newest is there unless the history was cleared after it.
HistoryBoundedFifo ==
    /\ Len(eventHistory) <= maxHistorySize
    /\ \A i \in 1..(Len(eventHistory) - 1) :
           eventHistory[i + 1].seq = eventHistory[i].seq + 1
    /\ eventHistory # <<>> => eventHistory[Len(eventHistory)].seq = emitCount
    /\ emitCount >= maxHistorySize + 1 =>
           \A i \in 1..Len(eventHistory) : eventHistory[i].seq # 1
    /\ (emitCount = maxHistorySize + 1 /\ Len(eventHistory) = maxHistorySize) =>
           /\ eventHistory[1].seq = 2
           /\ eventHistory[maxHistorySize].seq = maxHistorySize + 1

\* a full history whose oldest record was evicted by the second record of a
\* filter() call
HistoryEvictedWitness ==
    /\ emitCount = maxHistorySize + 1
    /\ Len(eventHistory) = maxHistorySize
    /\ eventHistory[1].seq = 2
    /\ eventHistory[maxHistorySize].name = "user:event:filter-result"
    /\ \E i \in 1..maxHistorySize : eventHistory[i].name = "user:event:filter"

----------------------------------------------------------------------------
(* Dispatch: listeners are registered, then events are emitted and filtered *)

MaxListeners == 2
MaxDispatchRecords == 3

ListenersOf(event) == IF has(eventListeners, event) THEN eventListeners[event] ELSE <<>>

Registering == emitCount = 0

NextDispatch ==
    \/ /\ Registering
       /\ Len(ListenersOf("user:event")) < MaxListeners
       /\ \E cb \in Callbacks : On("user:event", cb)
    \/ Registering /\ \E cb \in Callbacks : Off("user:event", cb)
    \/ emitCount < MaxDispatchRecords /\ \E n \in {0, 1} : UserEmit("user:event", Num(n))
    \/ /\ emitCount < MaxDispatchRecords
       /\ \E t \in FTasks, n \in {0, 1} : FilterCall(t, "user:event", Num(n))
    \/ \E t \in FTasks : FilterResume(t)
    \/ \E t \in FTasks : FilterReturn(t)

InitDispatch == Init(DefaultConfig)

SpecDispatch == InitDispatch /\ [][NextDispatch]_vars

CallsOf(id) == SelectSeq(calls, LAMBDA c : c.id = id)

\* the positions of the ghost log that hold the calls of dispatch id
PositionsOf(id) == {k \in 1..Len(calls) : calls[k].id = id}

\* C9: every emit() has invoked each listener of the event once, in
\* registration order and with the emitted data, in one uninterrupted run, a
\* throwing listener notwithstanding; and no emit() threw.
EmitReachesEveryListener ==
    /\ ~emitThrew
    /\ \A r \in 1..Len(eventHistory) :
           eventHistory[r].name = "user:event" =>
               LET id == eventHistory[r].seq
                   list == ListenersOf("user:event")
                   mine == CallsOf(id)
               IN  /\ Len(mine) = Len(list)
                   /\ \A k \in 1..Len(list) :
                          /\ mine[k].cb = list[k]
                          /\ mine[k].arg = eventHistory[r].data
                   /\ \A k1, k2 \in PositionsOf(id) :
                          \A k \in k1..k2 : k \in PositionsOf(id)

\* an emit() whose first listener throws and whose second listener was called
EmitAfterThrowWitness ==
    \E r \in 1..Len(eventHistory) :
        /\ eventHistory[r].name = "user:event"
        /\ ListenersOf("user:event") = <<"throw", "inc">>
        /\ CallsOf(eventHistory[r].seq) =
               <<Call(eventHistory[r].seq, "throw", eventHistory[r].data),
                 Call(eventHistory[r].seq, "inc", eventHistory[r].data)>>

Produced(cb, x) == CallbackResult(cb, x).value

\* C10: a filter() call with no listener resolves to its data.  When every
\* listener returns a value (directly or through a promise), the listeners
\* are called in registration order, the first with the data and each other
\* one with what the one before it produced; while the promise of listener k
\* is pending exactly k listeners have been called; the call resolves to what
\* the last listener produced, which is data + N for N listeners adding one.
FilterIsSequentialPipeline ==
    \A t \in FTasks :
        LET f == ftask[t]
            list == ListenersOf(f.event)
            mine == CallsOf(f.id)
            n == Len(list)
        IN  f.pc # "idle" =>
              /\ (n = 0 /\ f.pc = "done") => (f.result = f.data /\ mine = <<>>)
              /\ (\A k \in 1..n : ReturnsValue(list[k])) =>
                   /\ Len(mine) <= n
                   /\ \A k \in 1..Len(mine) :
                          /\ mine[k].cb = list[k]
                          /\ mine[k].arg = IF k = 1 THEN f.data
                                           ELSE Produced(list[k - 1], mine[k - 1].arg)
                   /\ f.pc = "awaiting" =>
                          /\ Len(mine) = f.idx
                          /\ CallbackResult(list[f.idx], mine[f.idx].arg).kind = "promise"
                   /\ f.pc \in {"returning", "done"} => Len(mine) = n
                   /\ (f.pc = "done" /\ n > 0) =>
                          f.result = Produced(list[n], mine[n].arg)
                   /\ (f.pc = "done" /\ \A k \in 1..n : list[k] \in {"inc", "incAsync"}) =>
                          f.result = Num(f.data.n + n)

\* a finished pipeline of an asynchronous and a synchronous listener adding one
FilterPipelineWitness ==
    \E t \in FTasks :
        /\ ftask[t].pc = "done"
        /\ ListenersOf(ftask[t].event) = <<"incAsync", "inc">>
        /\ ftask[t].data = Num(1)
        /\ ftask[t].result = Num(3)
        /\ Len(CallsOf(ftask[t].id)) = 2

----------------------------------------------------------------------------
(* The filter pipeline: up to MaxStages listeners, then one filter() call *)

MaxStages == 3

NextPipeline ==
    \/ /\ Registering
       /\ Len(ListenersOf("user:event")) < MaxStages
       /\ \E cb \in Callbacks : On("user:event", cb)
    \/ \E t \in FTasks, n \in {0, 1} : FilterCall(t, "user:event", Num(n))
    \/ \E t \in FTasks : FilterResume(t)
    \/ \E t \in FTasks : FilterReturn(t)

InitPipeline == Init(DefaultConfig)

SpecPipeline == InitPipeline /\ [][NextPipeline]_vars

ReturnsUndefined(cb) == cb \in {"undef", "undefAsync"}
Fails(cb) == cb \in {"throw", "reject"}

\* the listeners of the call were invoked in registration order, as far as
\* the call has come
CalledInOrder(f) ==
    LET list == ListenersOf(f.event)
        mine == CallsOf(f.id)
    IN  /\ Len(mine) <= Len(list)
        /\ \A k \in 1..Len(mine) : mine[k].cb = list[k]

FilterSkipsFailingListener ==
    \A t \in FTasks :
        LET f == ftask[t]
            list == ListenersOf(f.event)
            mine == CallsOf(f.id)
            n == Len(list)
        IN  /\ f.pc \in {"idle", "awaiting", "returning", "done"}
            /\ f.pc # "idle" =>
                  /\ CalledInOrder(f)
                  /\ \A k \in 2..Len(mine) :
                         Fails(list[k - 1]) => mine[k].arg = mine[k - 1].arg
                  /\ f.pc = "awaiting" => Len(mine) = f.idx
                  /\ f.pc \in {"returning", "done"} => Len(mine) = n
                  /\ (f.pc = "done" /\ n > 0 /\ Fails(list[n])) => f.result = mine[n].arg
                  /\ (f.pc = "done" /\ \A k \in 1..n : Fails(list[k])) => f.result = f.data

\* inc, a throwing listener, a rejecting listener, filtering 1: all three
\* were called, the last two with 2, and the call resolved to 2
FailingListenersSkippedWitness ==
    \E t \in FTasks :
        /\ ftask[t].pc = "done"
        /\ ListenersOf(ftask[t].event) = <<"inc", "throw", "reject">>
        /\ ftask[t].data = Num(1)
        /\ CallsOf(ftask[t].id) = << Call(ftask[t].id, "inc", Num(1)),
                                     Call(ftask[t].id, "throw", Num(2)),
                                     Call(ftask[t].id, "reject", Num(2)) >>
        /\ ftask[t].result = Num(2)

----------------------------------------------------------------------------
(* Registration: routes and modules are registered, nothing else happens *)

\* how long the trace may be when a registration is called
MaxRegisterItems == 3

RegisterPaths == { <<"/">>, <<"/", "a">>, <<"/", ":", "x">> }

\* options with and without a handler (a function, a template) and a module
RegisterOptions ==
    { [handler |-> h, module |-> mod, beforeEnter |-> Null, afterEnter |-> Null] :
        h \in {Null, "h1", "t1"}, mod \in {Null, "A"} }

Entry(path, options) == [path |-> path, options |-> options]

\* module definitions with and without render, onRegister and routes
RegisterModules ==
    { [NoModule EXCEPT !.render = r, !.onRegister = h, !.routes = rs] :
        r \in BOOLEAN, h \in BOOLEAN,
        rs \in { <<>>,
                 <<Entry(<<"/", "a">>, RouteOptions("object", Null, Null, Null))>>,
                 <<Entry(<<"/">>, RouteOptions("function", "h2", Null, Null)),
                   Entry(<<"/", "a">>, RouteOptions("string", "t1", Null, Null))>> } }

NextRegister ==
    \/ /\ Len(trace) < MaxRegisterItems
       /\ \E path \in RegisterPaths, options \in RegisterOptions :
             RegisterRoute(path, options)
    \/ /\ Len(trace) < MaxRegisterItems
       /\ \E name \in {"A", "B"}, module \in RegisterModules, o \in Outcomes :
             RegisterModule(name, module, o)

InitRegister == Init(DefaultConfig)

SpecRegister == InitRegister /\ [][NextRegister]_vars

\* the routes stored under the key path, by position
KeysOf(rs, path) == {i \in 1..Len(rs) : rs[i].path = path}

\* the routes not stored under the key path, in Map order
Others(rs, path) == SelectSeq(rs, LAMBDA r : r.path # path)

NewRecords == SubSeq(eventHistory', Len(eventHistory) + 1, Len(eventHistory'))
NewItems == SubSeq(trace', Len(trace) + 1, Len(trace'))

\* C13: a registerRoute(path, options) call whose options have neither a
\* handler nor a module throws and leaves the route map and the event
\* history as they were; any other call leaves exactly one route under the
\* key path, with the handler and the module of the options, leaves the
\* routes under the other keys as they were, and emits one route:registered
\* event for the path.
RegisterRouteContract ==
    [][\A path \in RegisterPaths, options \in RegisterOptions :
          RegisterRoute(path, options) =>
             IF options.handler = Null /\ options.module = Null
             THEN /\ NewItems = <<Hook("user", "throw", "registerRoute")>>
                  /\ routes' = routes
                  /\ eventHistory' = eventHistory
             ELSE /\ Cardinality(KeysOf(routes', path)) = 1
                  /\ \A i \in KeysOf(routes', path) :
                         /\ routes'[i].handler = options.handler
                         /\ routes'[i].module = options.module
                  /\ Others(routes', path) = Others(routes, path)
                  /\ Len(NewRecords) = 1
                  /\ NewRecords[1].name = "route:registered"
                  /\ NewRecords[1].data.path = path
      ]_vars

\* '/a' registered with a function handler, then with a module only: the
\* second registration replaced the first, after a call without handler
\* and module threw
RouteReplacedWitness ==
    /\ Len(trace) = 3
    /\ trace[1] = Emit("user", "route:registered", <<"/", "a">>, "h1")
    /\ trace[2] = Hook("user", "throw", "registerRoute")
    /\ trace[3] = Emit("user", "route:registered", <<"/", "a">>, "")
    /\ Len(routes) = 1
    /\ routes[1].module = "A"
    /\ routes[1].handler = Null

\* C14: a registerModule(name, definition) call whose definition has no
\* render throws and leaves the module registry, the route map and the event
\* history as they were, without calling onRegister; a call with a render
\* stores the definition under name, calls onRegister when it is defined and,
\* whether onRegister throws or not, registers the routes and emits
\* module:registered.
RegisterModuleContract ==
    [][\A name \in {"A", "B"}, module \in RegisterModules, o \in Outcomes :
          RegisterModule(name, module, o) =>
             IF ~module.render
             THEN /\ NewItems = <<Hook("user", "throw", "registerModule")>>
                  /\ modules' = modules
                  /\ routes' = routes
                  /\ eventHistory' = eventHistory
             ELSE /\ name \in DOMAIN modules'
                  /\ modules'[name] = [module EXCEPT !.name = name]
                  /\ \A other \in DOMAIN modules \ {name} :
                         other \in DOMAIN modules' /\ modules'[other] = modules[other]
                  /\ Len(SelectSeq(NewItems, LAMBDA x : x.op = "onRegister")) =
                         (IF module.onRegister THEN 1 ELSE 0)
                  /\ \A k \in 1..Len(module.routes) :
                         \E i \in 1..Len(routes') :
                             /\ routes'[i].path = module.routes[k].path
                             /\ routes'[i].module = name
                  /\ NewItems[Len(NewItems)] = Emit("user", "module:registered", <<>>, name)
                  /\ NewRecords[Len(NewRecords)].name = "module:registered"
      ]_vars

\* a module registered over an earlier definition although its onRegister
\* threw
OnRegisterThrewWitness ==
    /\ Len(trace) = 3
    /\ trace[1] = Emit("user", "module:registered", <<>>, "A")
    /\ trace[2] = Item("user", "onRegister", "A", <<>>, <<>>, "throw")
    /\ trace[3] = Emit("user", "module:registered", <<>>, "A")
    /\ modules["A"].onRegister

----------------------------------------------------------------------------
(* Template handlers: routes with template strings are registered, the     *)
(* framework is started, paths are navigated to                            *)

MaxTemplateRoutes == 2

Hello == <<"/", "h", "e", "l", "l", "o", "/">>

\* '/hello/:name', '/hello/:on' (a parameter named like a property of the
\* context) and '/hello/Ada'
TemplatePatterns ==
    { Hello \o <<":", "n", "a", "m", "e">>, Hello \o <<":", "o", "n">>,
      Hello \o <<"A", "d", "a">> }

\* '/hello/Ada' and '/hello/' (an empty segment)
TemplateNavPaths == { Hello \o <<"A", "d", "a">>, Hello }

TemplateHandlers == {"hi", "twice", "mixed", "braces", "spaced"}

templateOptions(h) == [handler |-> h, module |-> Null, beforeEnter |-> Null,
                       afterEnter |-> Null]

NextTemplate ==
    \/ /\ SettingUp /\ Cardinality(Registrations) < MaxTemplateRoutes
       /\ \E path \in TemplatePatterns, h \in TemplateHandlers :
             RegisterRoute(path, templateOptions(h))
    \/ routes # <<>> /\ Quiet /\ ~isStarted /\ Start
    \/ StartReady
    \/ /\ routes # <<>> /\ Quiet
       /\ \E path \in TemplateNavPaths : Navigate(freeTask(NavTasks), path, FALSE)
    \/ \E t \in NavTasks :
          \/ GuardGlobal(t, "true")
          \/ GuardRoute(t, "true")
          \/ UpdateUrl(t)
          \/ HandleRoute(t)
          \/ Handler(t, "ok")
          \/ Settle(t, "ok", "ok")
          \/ Failed(t)
          \/ NotFound(t, "ok")
          \/ Resume(t)

InitTemplate == Init(DefaultConfig)

SpecTemplate == InitTemplate /\ [][NextTemplate]_vars

\* The templates as their author reads them: literal text and {{tokens}}
Lit(text) == [tok |-> FALSE, text |-> text]
Tok(name) == [tok |-> TRUE, text |-> name]

NameVar == <<"n", "a", "m", "e">>

Pieces ==
    [ hi     |-> <<Lit(<<"<", "p", ">", "H", "i", " ">>), Tok(NameVar),
                   Lit(<<"<", "/", "p", ">">>)>>,
      twice  |-> <<Tok(NameVar), Lit(<<"-">>), Tok(NameVar)>>,
      mixed  |-> <<Tok(<<"o", "n">>), Tok(<<"z">>), Tok(NameVar)>>,
      braces |-> <<Lit(<<"{">>), Tok(NameVar), Lit(<<"}">>)>>,
      spaced |-> <<Lit(<<"{", "{", " ", "n", "a", "m", "e", "}", "}", "{", "{", "}", "}">>)>> ]

Verbatim(piece) ==
    IF piece.tok THEN <<"{", "{">> \o piece.text \o <<"}", "}">> ELSE piece.text

\* a piece as the claim has it rendered: the route parameter, else the
\* context property, else the token itself
Rendered(piece, params) ==
    IF ~piece.tok THEN piece.text
    ELSE IF \E p \in params : p[1] = piece.text
         THEN (CHOOSE p \in params : p[1] = piece.text)[2]
    ELSE IF piece.text \in ContextKeys THEN contextText(piece.text)
    ELSE Verbatim(piece)

RECURSIVE Concat(_, _, _)
Concat(pieces, params, verbatim) ==
    IF pieces = <<>> THEN <<>>
    ELSE (IF verbatim THEN Verbatim(Head(pieces)) ELSE Rendered(Head(pieces), params))
         \o Concat(Tail(pieces), params, verbatim)

\* C16: when the template handler of a route runs on a framework with a
\* mount target, the mount target gets the template with every {{token}}
\* replaced by the route parameter of that name, else by the context property
\* of that name, else left as it is; '/hello/:name' with '<p>Hi {{name}}</p>'
\* navigated to as '/hello/Ada' shows '<p>Hi Ada</p>'.
TemplateRendered ==
    [][\A t \in NavTasks :
          LET route == task[t].route
          IN  (Handler(t, "ok") /\ route.handler \in TemplateHandlers
                                /\ moduleContainer # Null) =>
                 /\ Concat(Pieces[route.handler], {}, TRUE) = Templates[route.handler]
                 /\ innerHTML' = Str(Concat(Pieces[route.handler], route.params, FALSE))
                 /\ (route.handler = "hi" /\ route.path = Hello \o <<":">> \o NameVar
                       /\ task[t].path = Hello \o <<"A", "d", "a">>) =>
                        innerHTML' = "<p>Hi Ada</p>"
      ]_vars

\* the scenario of the claim, settled
HiAdaWitness ==
    \E t \in NavTasks :
        /\ task[t].outcome = "settled"
        /\ task[t].path = Hello \o <<"A", "d", "a">>
        /\ task[t].route.path = Hello \o <<":">> \o NameVar
        /\ task[t].route.handler = "hi"
        /\ innerHTML = "<p>Hi Ada</p>"
        /\ currentRoute.path = Hello \o <<":">> \o NameVar

----------------------------------------------------------------------------
(* Not found: a framework with one route and one module, configured with   *)
(* each kind of not-found handler, navigated before and after start()      *)

MissingPath == <<"/", "b">>

\* notFoundHandler: absent, a function, a template string, a registered
\* module, a module that cannot be found
NotFoundConfigs ==
    { [DefaultConfig EXCEPT !.notFoundHandler = h] :
        h \in { NotFoundDefault, [kind |-> "function", module |-> Null],
                [kind |-> "string", module |-> Null], [kind |-> "module", module |-> "A"],
                [kind |-> "module", module |-> "missing"] } }

Ready == has(modules, "A") /\ routesHas(routes, PagePath)

\* no call is under way
AllQuiet == LoopIdle /\ \A t \in Tasks : task[t].pc \in {"idle", "done"}

NextNotFound ==
    \/ SettingUp /\ ~has(modules, "A") /\ RegisterModule("A", BareModule, "ok")
    \/ /\ SettingUp /\ has(modules, "A") /\ ~routesHas(routes, PagePath)
       /\ RegisterRoute(PagePath, fnOptions("h1"))
    \/ Ready /\ AllQuiet /\ ~isStarted /\ Start
    \/ StartReady
    \/ /\ Ready /\ AllQuiet
       /\ \E path \in {PagePath, MissingPath} : Navigate(freeTask(NavTasks), path, FALSE)
    \/ \E t \in NavTasks :
          \/ GuardGlobal(t, "true")
          \/ GuardRoute(t, "true")
          \/ UpdateUrl(t)
          \/ HandleRoute(t)
          \/ Handler(t, "ok")
          \/ Settle(t, "ok", "ok")
          \/ \E o \in Outcomes : NotFound(t, o)
          \/ NotFoundEmit(t)
    \/ \E t \in LoadTasks :
          \/ LoadBegin(t)
          \/ LoadImported(t)
          \/ LoadBeforeMount(t, "ok")
          \/ LoadDestroy(t, "ok")
          \/ LoadRender(t, "ok")
          \/ LoadAfterMount(t, "ok")
          \/ LoadCurrent(t)
          \/ LoadCatch(t)
    \/ \E t \in Tasks : Resume(t)

InitNotFound == \E options \in NotFoundConfigs : Init(options)

SpecNotFound == InitNotFound /\ [][NextNotFound]_vars

\* the navigation of task t found no route and has returned
NotFoundReturned(t) == task[t].pc = "done" /\ ~task[t].route.found

\* the route:404 events task t emitted
Emitted404(t) == SelectSeq(ItemsOf(t), LAMBDA x : x.op = "emit" /\ x.name = "route:404")

FirstItemOf(t) == CHOOSE k \in 1..Len(trace) :
                      trace[k].t = t /\ \A j \in 1..(k - 1) : trace[j].t # t

\* the mount target existed when the navigation of task t was called
HadContainer(t) ==
    \E k \in 1..FirstItemOf(t) : trace[k].op = "initializeContainer"

\* the not-found handling of task t threw: the function handler did, or the
\* template or the built-in panel was to be written to a mount target that
\* is not there
HandlingThrew(t) ==
    \E k \in 1..Len(trace) :
        /\ trace[k].t = t /\ trace[k].op = "notFoundHandler"
        /\ \/ trace[k].name = "function" /\ trace[k].arg = "throw"
           \/ trace[k].name \in {"none", "string"} /\ ~HadContainer(t)

NoCurrentRouteBy(t) == \A k \in 1..Len(trace) : trace[k].t = t => trace[k].op # "currentRoute"

----------------------------------------------------------------------------
(* Module routes: a module that declares routes in object form is          *)
(* registered, the framework is started, the routes are navigated to       *)

MaxEntryNavigations == 2

\* '/e': {}, '/o': undefined, '/w': {afterEnter}, '/s': a template string,
\* '/f': a function, '/h': {handler}
EntryEmpty    == Entry(<<"/", "e">>, RouteOptions("object", Null, Null, Null))
EntryOmitted  == Entry(<<"/", "o">>, RouteOptions("other", Null, Null, Null))
EntryNoHandler == Entry(<<"/", "w">>, RouteOptions("object", Null, Null, "ra"))
EntryString   == Entry(<<"/", "s">>, RouteOptions("string", "hi", Null, Null))
EntryFunction == Entry(<<"/", "f">>, RouteOptions("function", "h1", Null, Null))
EntryHandler  == Entry(<<"/", "h">>, RouteOptions("object", "h2", Null, Null))

EntryLists ==
    { <<EntryEmpty, EntryString, EntryFunction>>,
      <<EntryOmitted, EntryNoHandler, EntryHandler>>,
      <<EntryFunction, EntryEmpty>> }

EntryPaths == { <<"/", "e">>, <<"/", "o">>, <<"/", "w">>, <<"/", "s">>, <<"/", "f">>,
                <<"/", "h">> }

\* the navigations called by the application so far
Navigations == {k \in 1..Len(trace) : trace[k].op = "resolve" /\ trace[k].t \in NavTasks}

NextModuleRoutes ==
    \/ /\ SettingUp /\ modules = <<>>
       /\ \E name \in {"A", "B"}, entries \in EntryLists, h \in BOOLEAN :
             RegisterModule(name, [BareModule EXCEPT !.routes = entries,
                                                     !.onRegister = h], "ok")
    \/ modules # <<>> /\ AllQuiet /\ ~isStarted /\ Start
    \/ StartReady
    \/ /\ isStarted /\ AllQuiet /\ Cardinality(Navigations) <= MaxEntryNavigations
       /\ \E path \in EntryPaths : Navigate(freeTask(NavTasks), path, FALSE)
    \/ \E t \in NavTasks :
          \/ GuardGlobal(t, "true")
          \/ GuardRoute(t, "true")
          \/ UpdateUrl(t)
          \/ HandleRoute(t)
          \/ LoadBegin(t)
          \/ LoadBeforeMount(t, "ok")
          \/ LoadDestroy(t, "ok")
          \/ LoadRender(t, "ok")
          \/ LoadAfterMount(t, "ok")
          \/ LoadCurrent(t)
          \/ Handler(t, "ok")
          \/ Settle(t, "ok", "ok")
          \/ NotFound(t, "ok")
          \/ Resume(t)

InitModuleRoutes == Init(DefaultConfig)

SpecModuleRoutes == InitModuleRoutes /\ [][NextModuleRoutes]_vars

\* the entry declares no handler: {}, nothing, or options without handler
DeclaresNoHandler(entry) ==
    \/ entry.options.kind = "other"
    \/ entry.options.kind = "object" /\ entry.options.handler = Null

OpsOf(t) == {ItemsOf(t)[k].op : k \in 1..Len(ItemsOf(t))}

\* C15: after a module was registered under n with object-form routes,
\* there is one route per entry, under the entry's path and with module n;
\* its handler is the entry's string or function, or the handler of the
\* entry's options, and there is none when the entry is {}, omitted or an
\* options object without handler.  A navigation that resolved to a route
\* without handler and has settled has called render of module n and no
\* handler; a string entry ran as a template, a function entry as a call.
ModuleRoutesRegistered ==
    /\ \A n \in DOMAIN modules :
           LET entries == modules[n].routes
           IN  /\ Len(routes) = Len(entries)
               /\ \A k \in 1..Len(entries) :
                      /\ routes[k].path = entries[k].path
                      /\ routes[k].module = n
                      /\ routes[k].handler =
                             (IF DeclaresNoHandler(entries[k]) THEN Null
                              ELSE entries[k].options.handler)
                      /\ routes[k].afterEnter = entries[k].options.afterEnter
    /\ \A t \in NavTasks :
           (task[t].pc = "done" /\ task[t].route.found) =>
              LET route == task[t].route
                  entry == CHOOSE x \in {modules[route.module].routes[k] :
                                           k \in 1..Len(modules[route.module].routes)} :
                               x.path = route.path
                  renders == SelectSeq(ItemsOf(t), LAMBDA x : x.op = "render")
              IN  /\ task[t].outcome = "settled"
                  /\ renders = <<Item(t, "render", route.module, <<>>, <<>>, "ok")>>
                  /\ DeclaresNoHandler(entry) => OpsOf(t) \cap {"handler", "template"} = {}
                  /\ entry.options.kind = "string" =>
                         ("template" \in OpsOf(t) /\ "handler" \notin OpsOf(t))
                  /\ entry.options.kind = "function" =>
                         ("handler" \in OpsOf(t) /\ "template" \notin OpsOf(t))

\* module B declared '/e': {} and '/e' was navigated to: render of B ran,
\* no handler did, and B's content is shown
RenderOnlyWitness ==
    \E t \in NavTasks :
        /\ task[t].outcome = "settled"
        /\ task[t].path = <<"/", "e">>
        /\ task[t].route.module = "B"
        /\ task[t].route.handler = Null
        /\ \E k \in 1..Len(ItemsOf(t)) :
               ItemsOf(t)[k].op = "render" /\ ItemsOf(t)[k].name = "B"
        /\ OpsOf(t) \cap {"handler", "template"} = {}
        /\ innerHTML = "module:B"
        /\ currentRoute.path = <<"/", "e">>

----------------------------------------------------------------------------
(* Loads that fail: modules with hooks that return or throw, found, lazily *)
(* imported or missing, loaded by calls that may overlap                   *)

NextLoadFail ==
    \/ /\ SettingUp /\ ~has(modules, "A")
       /\ \E m \in {BareModule, FullModule} : RegisterModule("A", m, "ok")
    \/ /\ SettingUp /\ has(modules, "A") /\ ~has(modules, "B")
       /\ RegisterModule("B", FullModule, "ok")
    \/ /\ has(modules, "B") /\ \E t \in LoadTasks : task[t].pc = "idle"
       /\ \E name \in LoadNames : LoadModule(freeTask(LoadTasks), name)
    \/ \E t \in LoadTasks :
          \/ LoadBegin(t)
          \/ LoadImported(t)
          \/ \E o \in Outcomes : LoadBeforeMount(t, o)
          \/ \E o \in Outcomes : LoadDestroy(t, o)
          \/ \E o \in Outcomes : LoadRender(t, o)
          \/ \E o \in Outcomes : LoadAfterMount(t, o)
          \/ LoadCurrent(t)
          \/ LoadCatch(t)
          \/ Resume(t)

\* with and without lazy loading
InitLoadFail == \E lazy \in BOOLEAN : Init([DefaultConfig EXCEPT !.lazy = lazy])

SpecLoadFail == InitLoadFail /\ [][NextLoadFail]_vars

LoadReturned(t) == task[t].pc = "done"

\* the load found no module: it is not registered and lazy loading is off or
\* the import failed
FoundNoModule(t) == task[t].module = NoModule

\* a hook called by load t threw or rejected
HookThrew(t) ==
    \E k \in 1..Len(trace) :
        /\ trace[k].t = t
        /\ trace[k].op \in {"beforeMount", "destroy", "render", "afterMount"}
        /\ trace[k].arg = "throw"

EmitsOf(t, event) == SelectSeq(ItemsOf(t), LAMBDA x : x.op = "emit" /\ x.name = event)

\* the positions of the trace where a load assigned the current module
Assignments == {k \in 1..Len(trace) : trace[k].op = "currentModule"}

\* C18: a load has failed exactly when it found no module or one of
\* beforeMount, the current module's destroy, render and afterMount threw.
\* A load that failed has emitted module:error once, for its module, and
\* then shown the error (showError, which emits error); it has not assigned
\* the current module nor emitted module:load, so the current module is the
\* one of the time of the call unless another load assigned it meanwhile;
\* and its promise resolved: a load returns in no other way than loaded or
\* failed-and-recovered.
LoadFailureRecovered ==
    \A t \in LoadTasks :
        LoadReturned(t) =>
            LET items == ItemsOf(t)
            IN  /\ task[t].outcome \in {"loaded", "loadFailed"}
                /\ task[t].outcome = "loadFailed" <=> (FoundNoModule(t) \/ HookThrew(t))
                /\ task[t].outcome = "loadFailed" =>
                      /\ EmitsOf(t, "module:error") = <<Emit(t, "module:error", <<>>, task[t].name)>>
                      /\ Cardinality(WithOp(items, "showError")) = 1
                      /\ \A i \in WithOp(items, "showError") :
                             \E j \in 1..(i - 1) :
                                 items[j].op = "emit" /\ items[j].name = "module:error"
                      /\ Len(EmitsOf(t, "error")) = 1
                      /\ EmitsOf(t, "module:load") = <<>>
                      /\ WithOp(items, "currentModule") = {}
                      /\ (\A k \in Assignments : k < FirstItemOf(t)) =>
                             currentModule = task[t].calledWith.currentModule

\* module B was loaded while A was current and its render threw: A's destroy
\* hook had run, the error is shown, and A is still the current module
RenderThrewWitness ==
    \E t \in LoadTasks :
        /\ LoadReturned(t)
        /\ task[t].outcome = "loadFailed"
        /\ task[t].name = "B"
        /\ task[t].calledWith.currentModule.name = "A"
        /\ \E k \in 1..Len(ItemsOf(t)) :
               ItemsOf(t)[k] = Item(t, "render", "B", <<>>, <<>>, "throw")
        /\ \E k \in 1..Len(ItemsOf(t)) : ItemsOf(t)[k].op = "destroy"
        /\ currentModule.name = "A"
        /\ innerHTML = "error"
        /\ eventHistory[Len(eventHistory) - 2].name = "module:error"

\* the loading:change events, by position in the trace
LoadingChanges == {k \in 1..Len(trace) : trace[k].op = "emit" /\ trace[k].name = "loading:change"}

\* C19: a load emits loading:change(true) before anything else it does and,
\* when it has returned, loading:change(false) was the last thing it did,
\* whether it succeeded or failed, each once; isLoading is the value of the
\* loading:change emitted last, so it is false when a load has just returned
\* and whenever no load is under way.
LoadingBracket ==
    /\ \A t \in LoadTasks :
           LET items == ItemsOf(t)
           IN  /\ items # <<>> => items[1] = Emit(t, "loading:change", <<>>, "true")
               /\ Len(EmitsOf(t, "loading:change")) <= 2
               /\ LoadReturned(t) =>
                     /\ items[Len(items)] = Emit(t, "loading:change", <<>>, "false")
                     /\ EmitsOf(t, "loading:change") =
                            <<Emit(t, "loading:change", <<>>, "true"),
                              Emit(t, "loading:change", <<>>, "false")>>
               /\ (LoadReturned(t) /\ trace[Len(trace)].t = t) => ~isLoading
    /\ isLoading <=>
           /\ LoadingChanges # {}
           /\ \E k \in LoadingChanges :
                  /\ \A j \in LoadingChanges : j <= k
                  /\ trace[k].arg = "true"
    /\ (\A t \in LoadTasks : task[t].pc \in {"idle", "done"}) => ~isLoading

\* a load that failed because its module is missing and a load that
\* succeeded have both returned, each bracketed, and isLoading is false
BracketedFailureWitness ==
    \E t, u \in LoadTasks :
        /\ LoadReturned(t) /\ task[t].outcome = "loadFailed" /\ task[t].name = "missing"
        /\ LoadReturned(u) /\ task[u].outcome = "loaded"
        /\ ItemsOf(t)[1] = Emit(t, "loading:change", <<>>, "true")
        /\ ItemsOf(t)[Len(ItemsOf(t))] = Emit(t, "loading:change", <<>>, "false")
        /\ ~isLoading

----------------------------------------------------------------------------
(* Handlers that fail: the two routes of the navigation fixture, with      *)
(* function handlers that return, throw or return a rejected promise       *)

HandlerOutcomes == {"ok", "throw", "reject"}

NextHandlerError ==
    \/ SettingUp /\ ~has(modules, "A") /\ RegisterModule("A", BareModule, "ok")
    \/ /\ SettingUp /\ has(modules, "A") /\ ~routesHas(routes, HomePath)
       /\ RegisterRoute(HomePath, fnOptions("h1"))
    \/ /\ SettingUp /\ routesHas(routes, HomePath) /\ ~routesHas(routes, PagePath)
       /\ RegisterRoute(PagePath, PageOptions)
    \/ SetUp /\ Quiet /\ ~isStarted /\ Start
    \/ StartReady
    \/ /\ isStarted /\ Quiet
       /\ \E path \in {HomePath, PagePath} : Navigate(freeTask(NavTasks), path, FALSE)
    \/ \E t \in NavTasks :
          \/ GuardGlobal(t, "true")
          \/ CheckGlobal(t)
          \/ GuardRoute(t, "true")
          \/ CheckRoute(t)
          \/ UpdateUrl(t)
          \/ HandleRoute(t)
          \/ LoadBegin(t)
          \/ LoadBeforeMount(t, "ok")
          \/ LoadDestroy(t, "ok")
          \/ LoadRender(t, "ok")
          \/ LoadAfterMount(t, "ok")
          \/ LoadCurrent(t)
          \/ \E o \in HandlerOutcomes : Handler(t, o)
          \/ Settle(t, "ok", "ok")
          \/ Failed(t)
          \/ Resume(t)

InitHandlerError == \E options \in NavConfigs : Init(options)

SpecHandlerError == InitHandlerError /\ [][NextHandlerError]_vars

\* the function handler called by navigation t threw or rejected
HandlerFailed(t) ==
    \E k \in 1..Len(trace) :
        /\ trace[k].t = t /\ trace[k].op = "handler"
        /\ trace[k].arg \in {"throw", "reject"}

\* the positions of the trace where a navigation assigned currentRoute
RouteAssignments == {k \in 1..Len(trace) : trace[k].op = "currentRoute"}

\* C20: a navigation whose function handler threw or rejected has, once it
\* returned, emitted route:error once, for its route, as the last thing it
\* did; it called no afterEnter hook, did not assign currentRoute and did
\* not emit route:change, so currentRoute is the one of the time of the call
\* unless another navigation assigned it since; and its promise resolved.
HandlerErrorRecovered ==
    \A t \in NavTasks :
        (task[t].pc = "done" /\ HandlerFailed(t)) =>
            LET items == ItemsOf(t)
            IN  /\ task[t].outcome = "error"
                /\ EmitsOf(t, "route:error") =
                       <<Emit(t, "route:error", task[t].route.path, "")>>
                /\ items[Len(items)] = Emit(t, "route:error", task[t].route.path, "")
                /\ EmitsOf(t, "route:change") = <<>>
                /\ WithOp(items, "currentRoute") = {}
                /\ WithOp(items, "afterEnter") = {}
                /\ (\A k \in RouteAssignments : k < FirstItemOf(t)) =>
                       currentRoute = task[t].calledWith.currentRoute

\* '/a' was navigated to while '/' was current and its handler returned a
\* promise that rejected: route:error is the last event, '/' is still the
\* current route, and the location is already '/a'
HandlerRejectedWitness ==
    \E t \in NavTasks :
        /\ task[t].pc = "done"
        /\ task[t].outcome = "error"
        /\ task[t].path = PagePath
        /\ \E k \in 1..Len(ItemsOf(t)) :
               ItemsOf(t)[k].op = "handler" /\ ItemsOf(t)[k].arg = "reject"
        /\ task[t].calledWith.currentRoute.path = HomePath
        /\ currentRoute.path = HomePath
        /\ getCurrentRoute(config, location) = PagePath
        /\ eventHistory[Len(eventHistory)].name = "route:error"
        /\ eventHistory[Len(eventHistory)].data.path = PagePath

----------------------------------------------------------------------------
(* Guards that throw                                                       *)

\* a beforeEnter guard called by navigation t threw
GuardThrew(t) ==
    \E k \in 1..Len(trace) :
        trace[k].t = t /\ trace[k].op = "beforeEnter" /\ trace[k].arg = "throw"

\* C21: a navigation one of whose beforeEnter guards threw has, once it
\* returned, emitted route:error and did not reject for its caller
GuardThrowIsRouteError ==
    \A t \in NavTasks :
        (task[t].pc = "done" /\ GuardThrew(t)) =>
            /\ task[t].outcome # "rejected"
            /\ EmitsOf(t, "route:error") # <<>>
            /\ WithOp(ItemsOf(t), "currentRoute") = {}

----------------------------------------------------------------------------
(* start() called again: the fixture of the navigations, a mount target    *)
(* the page may remove and put back, and start() called at any quiet time  *)

MaxStartWarnings == 2
MaxRemovals == 1

Warnings == {k \in 1..Len(trace) : trace[k].op = "warn"}
Removals == {k \in 1..Len(trace) : trace[k] = Emit("observer", "container:removed", <<>>, "")}

NextStart ==
    \/ SettingUp /\ ~has(modules, "A") /\ RegisterModule("A", BareModule, "ok")
    \/ /\ SettingUp /\ has(modules, "A") /\ ~routesHas(routes, HomePath)
       /\ RegisterRoute(HomePath, fnOptions("h1"))
    \/ /\ SettingUp /\ routesHas(routes, HomePath) /\ ~routesHas(routes, PagePath)
       /\ RegisterRoute(PagePath, PageOptions)
    \/ SetUp /\ Quiet /\ Cardinality(Warnings) < MaxStartWarnings /\ Start
    \/ StartReady
    \/ /\ SetUp /\ Quiet /\ Cardinality(Removals) < MaxRemovals
       /\ \E observed \in BOOLEAN : DetachContainer(observed)
    \/ Quiet /\ AttachContainer
    \/ Quiet /\ \E o \in Outcomes : ContainerRecovery(o)
    \/ /\ isStarted /\ Quiet
       /\ Navigate(freeTask(NavTasks), PagePath, FALSE)
    \/ \E t \in NavTasks :
          \/ GuardGlobal(t, "true")
          \/ CheckGlobal(t)
          \/ GuardRoute(t, "true")
          \/ CheckRoute(t)
          \/ UpdateUrl(t)
          \/ HandleRoute(t)
          \/ LoadBegin(t)
          \/ LoadBeforeMount(t, "ok")
          \/ LoadDestroy(t, "ok")
          \/ LoadRender(t, "ok")
          \/ LoadAfterMount(t, "ok")
          \/ LoadCatch(t)
          \/ LoadCurrent(t)
          \/ Handler(t, "ok")
          \/ Settle(t, "ok", "ok")
          \/ Resume(t)

InitStart == \E options \in NavConfigs : Init(options)

SpecStart == InitStart /\ [][NextStart]_vars

\* C22: in a step from a state where the framework is started, start() does
\* nothing but warn: whatever start() records in the step is the warning, no
\* navigation is called by start(), framework:ready is not emitted, and in
\* the step of a warning the held container, its observer, the subscriptions
\* to the browser, the tasks, the event history and isStarted stay as they
\* are.
StartIsIdempotent ==
    [][isStarted =>
          /\ \A k \in 1..Len(NewItems) :
                 /\ NewItems[k].t = "start" =>
                        NewItems[k] = Hook("start", "warn", "already started")
                 /\ NewItems[k] # Emit("start", "framework:ready", <<>>, "")
          /\ \A n \in NavTasks :
                 task'[n].calledWith.origin = "start" =>
                     task[n].calledWith.origin = "start"
          /\ (\E k \in 1..Len(NewItems) : NewItems[k].op = "warn") =>
                 /\ NewItems = <<Hook("start", "warn", "already started")>>
                 /\ isStarted'
                 /\ UNCHANGED <<moduleContainer, containerObserver, subscribed, task,
                                stack, eventHistory, currentRoute, currentModule,
                                innerHTML, hist, hidx, bqueue>>]_vars

\* start() was called on a started framework whose container the observer
\* had dropped, and the container is still not held
StartAgainWitness ==
    /\ isStarted
    /\ moduleContainer = Null
    /\ trace # <<>>
    /\ trace[Len(trace)] = Hook("start", "warn", "already started")
    /\ Cardinality({k \in 1..Len(trace) : trace[k].op = "initializeContainer"}) = 1
    /\ \E n \in NavTasks : task[n].calledWith.origin = "start" /\ task[n].pc = "done"

----------------------------------------------------------------------------
(* destroy(): a module with or without hooks, one page route, listeners,   *)
(* a mount target that comes and goes, and destroy() called at any time    *)
(* the event loop is idle, before or after start()                         *)

MaxDestroys == 1
MaxLifecycleListeners == 2

LifecycleEvents == {"framework:ready", "framework:destroyed"}
LifecycleCallbacks == {"undef", "throw"}

Destroys == {k \in 1..Len(trace) : trace[k].op = "removeListeners"}

ListenerCount ==
    LET RECURSIVE sum(_)
        sum(es) == IF es = {} THEN 0
                   ELSE LET ev == CHOOSE x \in es : TRUE
                        IN  Len(eventListeners[ev]) + sum(es \ {ev})
    IN  sum(DOMAIN eventListeners)

NextDestroy ==
    \/ /\ SettingUp /\ ~has(modules, "A")
       /\ \E module \in {BareModule, FullModule} : RegisterModule("A", module, "ok")
    \/ /\ SettingUp /\ has(modules, "A") /\ ~routesHas(routes, HomePath)
       /\ RegisterRoute(HomePath, [fnOptions(Null) EXCEPT !.module = "A"])
    \/ /\ routesHas(routes, HomePath) /\ LoopIdle /\ Destroys = {}
       /\ ListenerCount < MaxLifecycleListeners
       /\ \E event \in LifecycleEvents, cb \in LifecycleCallbacks : On(event, cb)
    \/ routesHas(routes, HomePath) /\ Quiet /\ ~isStarted /\ Destroys = {} /\ Start
    \/ StartReady
    \/ /\ routesHas(routes, HomePath) /\ Cardinality(Removals) < MaxRemovals
       /\ \E observed \in BOOLEAN : DetachContainer(observed)
    \/ AttachContainer
    \/ \E o \in Outcomes : ContainerRecovery(o)
    \/ /\ routesHas(routes, HomePath) /\ LoopIdle
       /\ Cardinality(Destroys) < MaxDestroys
       /\ \E o \in HandlerOutcomes : Destroy(o)
    \/ \E t \in NavTasks :
          \/ GuardGlobal(t, "true")
          \/ GuardRoute(t, "true")
          \/ UpdateUrl(t)
          \/ HandleRoute(t)
          \/ LoadBegin(t)
          \/ LoadBeforeMount(t, "ok")
          \/ LoadDestroy(t, "ok")
          \/ LoadRender(t, "ok")
          \/ LoadAfterMount(t, "ok")
          \/ LoadCatch(t)
          \/ LoadCurrent(t)
          \/ Handler(t, "ok")
          \/ Settle(t, "ok", "ok")
          \/ Resume(t)

InitDestroy == Init(DefaultConfig)

SpecDestroy == InitDestroy /\ [][NextDestroy]_vars

\* the step is a call of destroy()
DestroyCalled == NewItems # <<>> /\ NewItems[1] = Hook("destroy", "removeListeners", "")

\* destroy() raised in the step
DestroyRaised == \E k \in 1..Len(NewItems) : NewItems[k] = Hook("destroy", "raise", "")

\* the calls of the current module's destroy hook in the step
DestroyHookCalls == SelectSeq(NewItems, LAMBDA x : x.t = "destroy" /\ x.op = "destroy")

DestroyedBeforeStartWitness ==
    /\ ~isStarted
    /\ \A k \in 1..Len(trace) : trace[k].t # "start"
    /\ trace # <<>>
    /\ trace[Len(trace)] = Emit("destroy", "framework:destroyed", <<>>, "")

\* C24: a destroy() that completes invokes every listener that was subscribed
\* to framework:destroyed when it was called, with the dispatch of the
\* framework:destroyed record
DestroyedListenersInvoked ==
    [][(DestroyCalled /\ ~DestroyRaised) =>
          \A i \in 1..Len(ListenersOf("framework:destroyed")) :
              \E c \in (Len(calls) + 1)..Len(calls') :
                  /\ calls'[c].cb = ListenersOf("framework:destroyed")[i]
                  /\ calls'[c].id = emitCount']_vars

----------------------------------------------------------------------------
(* The start-up scenario: a module, a route for the current location that  *)
(* names it, the mount target in the document, and start()                 *)

StartUpConfigs == {DefaultConfig, [DefaultConfig EXCEPT !.mode = "hash"]}

moduleRoute == [fnOptions(Null) EXCEPT !.module = "A"]

\* the steps the event loop takes once start() has been called
StartUpSteps ==
    \/ StartReady
    \/ \E t \in NavTasks :
          \/ GuardGlobal(t, "true")
          \/ GuardRoute(t, "true")
          \/ UpdateUrl(t)
          \/ HandleRoute(t)
          \/ LoadBegin(t)
          \/ \E o \in Outcomes : LoadBeforeMount(t, o)
          \/ LoadDestroy(t, "ok")
          \/ \E o \in Outcomes : LoadRender(t, o)
          \/ \E o \in Outcomes : LoadAfterMount(t, o)
          \/ LoadCatch(t)
          \/ LoadCurrent(t)
          \/ Handler(t, "ok")
          \/ Settle(t, "ok", "ok")
          \/ Resume(t)

NextStartUp ==
    \/ /\ SettingUp /\ ~has(modules, "A")
       /\ \E module \in {BareModule, FullModule} : RegisterModule("A", module, "ok")
    \/ /\ SettingUp /\ ~routesHas(routes, HomePath)
       /\ RegisterRoute(HomePath, moduleRoute)
    \/ /\ SettingUp /\ ~routesHas(routes, PagePath)
       /\ RegisterRoute(PagePath, fnOptions("h1"))
    \/ /\ has(modules, "A") /\ routesHas(routes, HomePath) /\ Quiet /\ ~isStarted
       /\ Start
    \/ StartUpSteps

InitStartUp == \E options \in StartUpConfigs : Init(options)

\* the event loop runs every continuation that is ready, and the promises
\* the hooks return settle
SpecStartUp == InitStartUp /\ [][NextStartUp]_vars /\ WF_vars(StartUpSteps)

StartCalled == task["start"].pc # "idle"

SomeHookThrew == \E t \in NavTasks : HookThrew(t)

\* the module is mounted and the route of the location is the current one
StartUpDone ==
    /\ \E k \in 1..Len(trace) :
           trace[k].op = "render" /\ trace[k].name = "A" /\ trace[k].arg = "ok"
    /\ innerHTML = "module:A"
    /\ currentModule = modules["A"]
    /\ currentRoute.found
    /\ currentRoute.path = getCurrentRoute(config, location)
    /\ currentRoute.module = "A"
    /\ \E r \in 1..Len(eventHistory) :
           /\ eventHistory[r].name = "route:change"
           /\ eventHistory[r].data.path = getCurrentRoute(config, location)

\* C25: once start() has been called, with the module registered and the
\* route of the current location naming it, the module's render is invoked
\* on the mount target, the module becomes the current module, the route
\* the current route, and route:change is emitted with the path of the
\* location, unless one of the module's hooks throws
StartUpCompletes == StartCalled ~> (StartUpDone \/ SomeHookThrew)

\* the start-up has completed for the module with all its hooks
StartUpDoneWitness ==
    /\ StartUpDone
    /\ isStarted
    /\ currentModule = [FullModule EXCEPT !.name = "A"]
    /\ ~SomeHookThrew
    /\ \A t \in NavTasks : task[t].pc \in {"idle", "done"}

----------------------------------------------------------------------------
(* Unregistration: modules A and B are registered, loaded and unregistered *)

MaxUnregisters == 2

UnregisterNames == {"A", "B", "C"}

Unregisters == {k \in 1..Len(trace) : trace[k].op = "unregisterModule"}

NextUnregister ==
    \/ /\ SettingUp /\ ~has(modules, "A") /\ Unregisters = {}
       /\ \E m \in {BareModule, FullModule} : RegisterModule("A", m, "ok")
    \/ /\ SettingUp /\ has(modules, "A") /\ ~has(modules, "B") /\ Unregisters = {}
       /\ \E m \in {BareModule, FullModule} : RegisterModule("B", m, "ok")
    \/ /\ NoLoad /\ trace # <<>>
       /\ \E name \in {"A", "B"} : LoadModule(freeTask(LoadTasks), name)
    \/ /\ NoLoad /\ trace # <<>> /\ Cardinality(Unregisters) < MaxUnregisters
       /\ \E name \in UnregisterNames : UnregisterModule(name)
    \/ \E t \in LoadTasks :
          \/ LoadBegin(t)
          \/ LoadImported(t)
          \/ LoadBeforeMount(t, "ok")
          \/ LoadDestroy(t, "ok")
          \/ LoadRender(t, "ok")
          \/ LoadAfterMount(t, "ok")
          \/ LoadCurrent(t)
          \/ LoadCatch(t)
          \/ Resume(t)

InitUnregister == \E lazy \in BOOLEAN : Init([DefaultConfig EXCEPT !.lazy = lazy])

SpecUnregister == InitUnregister /\ [][NextUnregister]_vars

\* the step is the call unregisterModule(name)
UnregisterCalled(name) ==
    NewItems # <<>> /\ NewItems[1] = Hook("user", "unregisterModule", name)

\* C26: after unregisterModule(name) the module that was registered under
\* name is not the current module; unregisterModule of a name that is not
\* registered emits nothing and changes neither the registry nor the current
\* module
ModuleNeverOutlivesUnregistration ==
    [][\A name \in UnregisterNames :
          UnregisterCalled(name) =>
              IF has(modules, name)
              THEN currentModule' # modules[name]
              ELSE NewRecords = <<>> /\ UNCHANGED <<modules, currentModule>>]_vars

----------------------------------------------------------------------------
(* A module that declares a beforeEnter guard returning false, and a route *)
(* that names the module                                                   *)

GuardedModules == {[BareModule EXCEPT !.beforeEnter = TRUE],
                   [FullModule EXCEPT !.beforeEnter = TRUE]}

NextModuleGuard ==
    \/ /\ SettingUp /\ ~has(modules, "A")
       /\ \E module \in GuardedModules : RegisterModule("A", module, "ok")
    \/ /\ SettingUp /\ has(modules, "A") /\ ~routesHas(routes, HomePath)
       /\ RegisterRoute(HomePath, fnOptions("h1"))
    \/ /\ SettingUp /\ has(modules, "A") /\ ~routesHas(routes, PagePath)
       /\ RegisterRoute(PagePath, moduleRoute)
    \/ SetUp /\ Quiet /\ ~isStarted /\ Start
    \/ StartReady
    \/ /\ isStarted /\ Quiet
       /\ \E path \in {HomePath, PagePath} : Navigate(freeTask(NavTasks), path, FALSE)
    \/ \E t \in NavTasks :
          \/ GuardGlobal(t, "true")
          \/ GuardRoute(t, "true")
          \/ UpdateUrl(t)
          \/ HandleRoute(t)
          \/ LoadBegin(t)
          \/ LoadBeforeMount(t, "ok")
          \/ LoadDestroy(t, "ok")
          \/ LoadRender(t, "ok")
          \/ LoadAfterMount(t, "ok")
          \/ LoadCurrent(t)
          \/ Handler(t, "ok")
          \/ Settle(t, "ok", "ok")
          \/ Resume(t)

InitModuleGuard == \E options \in StartUpConfigs : Init(options)

SpecModuleGuard == InitModuleGuard /\ [][NextModuleGuard]_vars

\* the route navigation t resolved names a module that declares beforeEnter
NamesGuardedModule(t) ==
    /\ task[t].route.found
    /\ task[t].route.module # Null
    /\ has(modules, task[t].route.module)
    /\ modules[task[t].route.module].beforeEnter

\* C27: a navigation to a route that names a module declaring a beforeEnter
\* guard that returns false is cancelled, and the module's render is not
\* invoked
ModuleGuardCancels ==
    \A t \in NavTasks :
        (task[t].pc = "done" /\ NamesGuardedModule(t)) =>
            /\ task[t].outcome = "cancelled"
            /\ WithOp(ItemsOf(t), "render") = {}

----------------------------------------------------------------------------
(* Writes to the mount container *)

\* the entry of the trace stands for a write to the container: the clearing
\* before a module's render, a template handler, the not-found template or
\* panel, the error panel
IsWrite(x) ==
    \/ x.op \in {"clear", "template", "showError"}
    \/ x.op = "notFoundHandler" /\ x.name \notin {"function", "module"}

\* C28: a step that writes to the container while the held container is
\* null or detached has emitted, before the write, container:reinitialized
\* when the container could be resolved again and container:error when not
ContainerRevalidatedBeforeWrite ==
    [][\A k \in 1..Len(NewItems) :
          (IsWrite(NewItems[k]) /\ ~isContainerValid) =>
              \E j \in 1..(k - 1) :
                  /\ NewItems[j].op = "emit"
                  /\ NewItems[j].name = IF ContainerInDocument
                                        THEN "container:reinitialized"
                                        ELSE "container:error"]_vars

----------------------------------------------------------------------------
(* Teardown and mount across loads *)

Renders == {k \in 1..Len(trace) : trace[k].op = "render"}

DefinesDestroy(name) == has(modules, name) /\ modules[name].destroy

\* C29: between the render of a module that defines destroy and a later
\* render of another module, the destroy hook of the first is invoked
TeardownPrecedesMount ==
    \A i \in Renders, j \in Renders :
        (i < j /\ trace[i].name # trace[j].name /\ DefinesDestroy(trace[i].name)) =>
            \E k \in (i + 1)..(j - 1) :
                trace[k].op = "destroy" /\ trace[k].name = trace[i].name

\* C30: a load calls the destroy hook of the current module only when the
\* current module is another module than the one it loads
DestroyOnlyOfAnotherModule ==
    \A k \in 1..Len(trace) :
        (trace[k].op = "destroy" /\ trace[k].t \in LoadTasks \cup NavTasks) =>
            trace[k].name # task[trace[k].t].name

----------------------------------------------------------------------------
(* Modules whose routes have an entry the Router refuses: an options       *)
(* object whose own module key is null and that has no handler             *)

EntryRefused == Entry(<<"/", "x">>,
                      [RouteOptions("object", Null, Null, Null) EXCEPT !.module = Null])

RefusedLists ==
    { <<EntryRefused, EntryString, EntryFunction>>,
      <<EntryEmpty, EntryRefused, EntryHandler>>,
      <<EntryFunction, EntryEmpty, EntryRefused>> }

NextRefused ==
    \/ /\ SettingUp /\ modules = <<>>
       /\ \E name \in {"A", "B"}, entries \in RefusedLists, h \in BOOLEAN :
             RegisterModule(name, [BareModule EXCEPT !.routes = entries,
                                                     !.onRegister = h], "ok")
    \/ modules # <<>> /\ AllQuiet /\ ~isStarted /\ Start
    \/ StartReady
    \/ /\ isStarted /\ AllQuiet /\ Cardinality(Navigations) <= MaxEntryNavigations
       /\ \E path \in EntryPaths : Navigate(freeTask(NavTasks), path, FALSE)
    \/ \E t \in NavTasks :
          \/ GuardGlobal(t, "true")
          \/ GuardRoute(t, "true")
          \/ UpdateUrl(t)
          \/ HandleRoute(t)
          \/ LoadBegin(t)
          \/ LoadBeforeMount(t, "ok")
          \/ LoadDestroy(t, "ok")
          \/ LoadRender(t, "ok")
          \/ LoadAfterMount(t, "ok")
          \/ LoadCurrent(t)
          \/ Handler(t, "ok")
          \/ Settle(t, "ok", "ok")
          \/ NotFound(t, "ok")
          \/ Resume(t)

InitRefused == Init(DefaultConfig)

SpecRefused == InitRefused /\ [][NextRefused]_vars

\* C31: once a module is stored, module:registered has been emitted for it
\* and every entry of its routes that the Router does not refuse is
\* registered
RefusedRouteBlocksNoOther ==
    \A n \in DOMAIN modules :
        /\ \E k \in 1..Len(trace) : trace[k] = Emit("user", "module:registered", <<>>, n)
        /\ \A k \in 1..Len(modules[n].routes) :
               ~registerRouteThrows(moduleRouteOptions(n, modules[n].routes[k].options))
                   => routesHas(routes, modules[n].routes[k].path)

----------------------------------------------------------------------------
(* Overlapping navigations: navigate() is called whenever the event loop   *)
(* is idle, also while earlier navigations are suspended                   *)

NextOverlap ==
    \/ SettingUp /\ ~has(modules, "A") /\ RegisterModule("A", BareModule, "ok")
    \/ /\ SettingUp /\ has(modules, "A") /\ ~routesHas(routes, HomePath)
       /\ RegisterRoute(HomePath, fnOptions("h1"))
    \/ /\ SettingUp /\ routesHas(routes, HomePath) /\ ~routesHas(routes, PagePath)
       /\ RegisterRoute(PagePath, PageOptions)
    \/ SetUp /\ Quiet /\ ~isStarted /\ Start
    \/ StartReady
    \/ /\ isStarted
       /\ \E path \in {HomePath, PagePath} : Navigate(freeTask(NavTasks), path, FALSE)
    \/ \E t \in NavTasks :
          \/ GuardGlobal(t, "true")
          \/ CheckGlobal(t)
          \/ GuardRoute(t, "true")
          \/ CheckRoute(t)
          \/ UpdateUrl(t)
          \/ HandleRoute(t)
          \/ LoadBegin(t)
          \/ LoadBeforeMount(t, "ok")
          \/ LoadDestroy(t, "ok")
          \/ LoadRender(t, "ok")
          \/ LoadAfterMount(t, "ok")
          \/ LoadCurrent(t)
          \/ Handler(t, "ok")
          \/ Settle(t, "ok", "ok")
          \/ Resume(t)

InitOverlap == \E options \in {DefaultConfig,
                                [DefaultConfig EXCEPT !.beforeEnter = "g",
                                                      !.afterEnter = "ga"]} :
                  Init(options)

SpecOverlap == InitOverlap /\ [][NextOverlap]_vars

OnStack(t) == \E k \in 1..Len(stack) : stack[k] = t

\* the position of the resolve entry of navigation t: when it was requested
RequestedAt(t) == CHOOSE k \in 1..Len(trace) : trace[k].t = t /\ trace[k].op = "resolve"

\* the position of the currentRoute entry of navigation t: when it settled
SettledAt(t) == CHOOSE k \in 1..Len(trace) : trace[k].t = t /\ trace[k].op = "currentRoute"

\* C32: with guards that pass and hooks that return, every navigation that
\* has returned took all its steps, whatever was requested meanwhile: the
\* location update, the module's render when the route names a module, the
\* handler when it has one, the afterEnter hooks, the assignment of
\* currentRoute and route:change.  A navigation that is neither suspended
\* at an await nor finished is on the call stack, so two navigations
\* interleave at suspension points only.  currentRoute is the route of the
\* navigation that assigned it last.
NoCancellation ==
    /\ \A t \in NavTasks :
           /\ task[t].pc \notin {"idle", "await", "done"} => OnStack(t)
           /\ task[t].pc = "done" =>
                  LET items == ItemsOf(t)
                      route == task[t].route
                  IN  /\ task[t].outcome = "settled"
                      /\ Len(items) >= 3
                      /\ items[Len(items)] = Emit(t, "route:change", route.path, "")
                      /\ items[Len(items) - 1].op = "currentRoute"
                      /\ ~task[t].skipHistory => WithOp(items, "updateBrowserUrl") # {}
                      /\ route.module # Null => WithOp(items, "render") # {}
                      /\ route.handler \in FunctionHandlers => WithOp(items, "handler") # {}
                      /\ route.afterEnter # Null =>
                             \E k \in WithOp(items, "afterEnter") : items[k].name = "route"
                      /\ config.afterEnter # Null =>
                             \E k \in WithOp(items, "afterEnter") : items[k].name = "global"
    /\ RouteAssignments # {} =>
           LET last == CHOOSE k \in RouteAssignments : \A j \in RouteAssignments : j <= k
           IN  currentRoute.path = trace[last].path

\* navigate('/a') was called, then navigate('/') while the first was
\* suspended; the second settled first and the first settled last, so the
\* current route is '/a' although '/' was requested last
SettledLastWinsWitness ==
    \E a \in NavTasks, b \in NavTasks :
        /\ task[a].pc = "done" /\ task[b].pc = "done"
        /\ task[a].path = PagePath /\ task[b].path = HomePath
        /\ task[a].calledWith.origin = "navigate" /\ task[b].calledWith.origin = "navigate"
        /\ RequestedAt(a) < RequestedAt(b)
        /\ RequestedAt(b) < SettledAt(a)
        /\ SettledAt(b) < SettledAt(a)
        /\ currentRoute.path = PagePath
        /\ LatestNavigation = b

----------------------------------------------------------------------------
(* Who writes the browser's location *)

\* the guard of the given kind was called by navigation t and returned true
GuardPassed(t, kind) ==
    \E k \in 1..Len(trace) :
        /\ trace[k].t = t /\ trace[k].op = "beforeEnter"
        /\ trace[k].name = kind /\ trace[k].arg = "true"

\* C33: a navigation made by start() or by the popstate or hashchange
\* listener is made with skipHistory and never writes the location.  A step
\* that adds an entry to the session history, or sets the fragment, is the
\* step of a navigation called without skipHistory, taken after the global
\* guard and the route's guard, where configured, have returned true.
OnlyPlainNavigationsWriteLocation ==
    [][/\ \A t \in NavTasks :
              task'[t].calledWith.origin \in {"start", "popstate", "hashchange"} =>
                  /\ task'[t].skipHistory
                  /\ WithOp(SelectSeq(trace', LAMBDA x : x.t = t),
                            "updateBrowserUrl") = {}
       /\ (hist' # hist \/ WithOp(NewItems, "updateBrowserUrl") # {}) =>
              \E t \in NavTasks :
                  /\ task[t].pc = "updateUrl" /\ task'[t].pc = "handleRoute"
                  /\ ~task[t].skipHistory
                  /\ task[t].calledWith.origin = "navigate"
                  /\ NewItems = <<Item(t, "updateBrowserUrl", "", task[t].path, <<>>, "")>>
                  /\ config.beforeEnter # Null => GuardPassed(t, "global")
                  /\ task[t].route.beforeEnter # Null => GuardPassed(t, "route")]_vars

\* the framework started at '/', navigate('/a') wrote the location after
\* both guards, the user went back, and the popstate navigation to '/'
\* settled without writing the location
BackDoesNotWriteWitness ==
    \E a \in NavTasks, b \in NavTasks, s \in NavTasks :
        /\ task[s].calledWith.origin = "start" /\ task[s].pc = "done"
        /\ task[a].calledWith.origin = "navigate" /\ task[a].outcome = "settled"
        /\ task[a].path = PagePath
        /\ GuardPassed(a, "global") /\ GuardPassed(a, "route")
        /\ WithOp(ItemsOf(a), "updateBrowserUrl") # {}
        /\ task[b].calledWith.origin = "popstate" /\ task[b].outcome = "settled"
        /\ WithOp(ItemsOf(b), "updateBrowserUrl") = {}
        /\ WithOp(ItemsOf(s), "updateBrowserUrl") = {}
        /\ Len(hist) = 2 /\ hidx = 1

----------------------------------------------------------------------------
(* framework:ready and the initial navigation *)

\* C34: when framework:ready is emitted the initial navigation has settled:
\* the navigation start() made has emitted route:change or route:404 before,
\* and, when its route names a module, the module's render was called.
ReadyFollowsInitialRoute ==
    \A k \in 1..Len(trace) :
        trace[k] = Emit("start", "framework:ready", <<>>, "") =>
            \E n \in NavTasks :
                /\ task[n].calledWith.origin = "start"
                /\ \E j \in 1..(k - 1) :
                       /\ trace[j].t = n /\ trace[j].op = "emit"
                       /\ trace[j].name \in {"route:change", "route:404"}
                /\ task[n].route.found /\ task[n].route.module # Null =>
                       \E j \in 1..(k - 1) : trace[j].t = n /\ trace[j].op = "render"

----------------------------------------------------------------------------
(* Listeners that call off() while they are being dispatched *)

MaxOffListeners == 3
MaxOffRecords == 3

OffEvent == "user:event"

\* "offSelf" calls off(event, itself) and "offInc" calls off(event, inc);
\* both return undefined
OffCallbacks == {"offSelf", "offInc"}

offTarget(cb) == IF cb = "offSelf" THEN "offSelf" ELSE "inc"

\* the list of the event after callback cb has run: off() splices the live
\* array the dispatch iterates
listAfter(list, cb) ==
    IF cb \in OffCallbacks /\ indexOf(list, offTarget(cb)) > 0
    THEN splice1(list, indexOf(list, offTarget(cb)))
    ELSE list

resultOf(cb, x) ==
    IF cb \in OffCallbacks THEN [kind |-> "return", value |-> Undef]
    ELSE CallbackResult(cb, x)

\* Array.prototype.forEach over the live array: the indices up to the
\* length the array had when forEach was called, an index being visited
\* only if the array still has it
RECURSIVE forEachLive(_, _, _, _, _)
forEachLive(list, i, n, data, id) ==
    IF i > n THEN [calls |-> <<>>, list |-> list]
    ELSE IF i > Len(list) THEN forEachLive(list, i + 1, n, data, id)
    ELSE LET rest == forEachLive(listAfter(list, list[i]), i + 1, n, data, id)
         IN  [rest EXCEPT !.calls = <<Call(id, list[i], data)>> \o @]

\* for (const callback of listeners) over the live array, for callbacks
\* that return synchronously
RECURSIVE forOfLive(_, _, _, _, _)
forOfLive(list, i, cur, data, id) ==
    IF i > Len(list) THEN [cur |-> cur, log |-> <<>>, list |-> list]
    ELSE LET r == resultOf(list[i], cur)
             next == CASE r.kind = "throw"  -> cur
                       [] r.kind = "return" -> IF r.value = Undef THEN data ELSE r.value
                       [] OTHER             -> cur
             rest == forOfLive(listAfter(list, list[i]), i + 1, next, data, id)
         IN  [rest EXCEPT !.log = <<Call(id, list[i], cur)>> \o @]

\* framework.emit(event, data) with listeners that may call off()
EmitOff(event, data) ==
    LET list == ListenersOf(event)
        raw == forEachLive(list, 1, Len(list), data, emitCount + 1)
    IN  /\ eventHistory' = addToHistory(eventHistory, emitCount, event, data, "framework")
        /\ emitCount' = emitCount + 1
        /\ calls' = calls \o raw.calls
        /\ eventListeners' = IF has(eventListeners, event)
                             THEN [eventListeners EXCEPT ![event] = raw.list]
                             ELSE eventListeners
        /\ UNCHANGED <<emitThrew, ftask, appVars>>

\* framework.filter(event, data) with listeners that may call off(); none
\* returns a promise, so filterRaw runs to its end without suspending
FilterOff(t, event, data) ==
    LET list == ListenersOf(event)
        run == forOfLive(list, 1, data, data, emitCount + 1)
    IN  /\ ftask[t].pc \in {"idle", "done"}
        /\ eventHistory' = addToHistory(eventHistory, emitCount, event \o ":filter",
                                        data, "framework")
        /\ emitCount' = emitCount + 1
        /\ calls' = calls \o run.log
        /\ eventListeners' = IF has(eventListeners, event)
                             THEN [eventListeners EXCEPT ![event] = run.list]
                             ELSE eventListeners
        /\ ftask' = [ftask EXCEPT ![t] =
                        [IdleFilter EXCEPT !.pc = "returning", !.event = event,
                                           !.data = data, !.id = emitCount + 1,
                                           !.cur = run.cur]]
        /\ UNCHANGED <<emitThrew, appVars>>

NextOff ==
    \/ /\ emitCount = 0
       /\ Len(ListenersOf(OffEvent)) < MaxOffListeners
       /\ \E cb \in {"inc", "undef"} \cup OffCallbacks :
             indexOf(ListenersOf(OffEvent), cb) = 0 /\ On(OffEvent, cb)
    \/ /\ emitCount < MaxOffRecords
       /\ \A t \in FTasks : ftask[t].pc # "returning"
       /\ EmitOff(OffEvent, Num(0))
    \/ emitCount < MaxOffRecords /\ \E t \in FTasks : FilterOff(t, OffEvent, Num(0))
    \/ \E t \in FTasks : FilterReturn(t)

InitOff == Init(DefaultConfig)

SpecOff == InitOff /\ [][NextOff]_vars

NewCalls == SubSeq(calls', Len(calls) + 1, Len(calls'))

\* C35: in a dispatch of an event by emit or by filter, every listener that
\* was registered for the event when the dispatch began and is still
\* registered when it ends was invoked exactly once by that dispatch,
\* whatever off() calls the listeners made meanwhile.
OffDuringDispatchSkipsNone ==
    [][(/\ emitCount' = emitCount + 1
        /\ eventHistory'[Len(eventHistory')].name \in {OffEvent, OffEvent \o ":filter"}) =>
          \A cb \in {"inc", "undef"} \cup OffCallbacks :
              (indexOf(ListenersOf(OffEvent), cb) > 0
               /\ indexOf(eventListeners'[OffEvent], cb) > 0) =>
                  Cardinality({k \in 1..Len(NewCalls) : NewCalls[k].cb = cb}) = 1]_vars

----------------------------------------------------------------------------
(* After destroy() *)

\* the position of the last entry of the destroy() call, when it returned
DestroyReturnedAt ==
    IF \E k \in 1..Len(trace) : trace[k] = Emit("destroy", "framework:destroyed", <<>>, "")
    THEN CHOOSE k \in 1..Len(trace) :
             trace[k] = Emit("destroy", "framework:destroyed", <<>>, "")
    ELSE 0

\* start() was called after position k of the trace
StartedSince(k) ==
    \E j \in (k + 1)..Len(trace) : trace[j] = Hook("start", "initializeContainer", "")

\* C36: once destroy() has returned and until start() is called again, the
\* framework is subscribed to no browser event and to no click, no container
\* observer is connected, and no module is rendered and nothing is written
\* to the container, whatever navigation was suspended and whatever
\* recovery timer was pending when destroy() was called.
DestroyedStaysQuiet ==
    (DestroyReturnedAt > 0 /\ ~StartedSince(DestroyReturnedAt)) =>
        /\ subscribed = {}
        /\ ~containerObserver
        /\ \A j \in (DestroyReturnedAt + 1)..Len(trace) :
               trace[j].op # "render" /\ ~IsWrite(trace[j])

----------------------------------------------------------------------------
(* Navigations whose module fails to load *)

NextNavLoadFail ==
    \/ /\ SettingUp /\ ~has(modules, "A")
       /\ \E module \in {BareModule, FullModule} : RegisterModule("A", module, "ok")
    \/ /\ SettingUp /\ has(modules, "A") /\ ~routesHas(routes, HomePath)
       /\ RegisterRoute(HomePath, fnOptions("h1"))
    \/ /\ SettingUp /\ routesHas(routes, HomePath) /\ ~routesHas(routes, PagePath)
       /\ RegisterRoute(PagePath, PageOptions)
    \/ SetUp /\ Quiet /\ ~isStarted /\ Start
    \/ StartReady
    \/ /\ isStarted /\ Quiet
       /\ \E path \in {HomePath, PagePath} : Navigate(freeTask(NavTasks), path, FALSE)
    \/ \E t \in NavTasks :
          \/ GuardGlobal(t, "true")
          \/ CheckGlobal(t)
          \/ GuardRoute(t, "true")
          \/ CheckRoute(t)
          \/ UpdateUrl(t)
          \/ HandleRoute(t)
          \/ LoadBegin(t)
          \/ \E o \in Outcomes : LoadBeforeMount(t, o)
          \/ \E o \in Outcomes : LoadDestroy(t, o)
          \/ \E o \in Outcomes : LoadRender(t, o)
          \/ \E o \in Outcomes : LoadAfterMount(t, o)
          \/ LoadCurrent(t)
          \/ LoadCatch(t)
          \/ Handler(t, "ok")
          \/ Settle(t, "ok", "ok")
          \/ Resume(t)

InitNavLoadFail == \E options \in {DefaultConfig,
                                    [DefaultConfig EXCEPT !.afterEnter = "ga"]} :
                      Init(options)

SpecNavLoadFail == InitNavLoadFail /\ [][NextNavLoadFail]_vars

\* the position of the first entry of navigation t that satisfies P
FirstAt(t, P(_)) == CHOOSE k \in 1..Len(trace) :
                        /\ trace[k].t = t /\ P(trace[k])
                        /\ \A j \in 1..(k - 1) : ~(trace[j].t = t /\ P(trace[j]))

\* C37: a navigation whose module load failed (a load hook threw) goes on
\* after module:error and the error panel: once it has returned it has
\* called the route's handler, then the afterEnter hooks that exist, then
\* assigned currentRoute and emitted route:change, all after the error was
\* shown; it emitted no route:error and its promise resolved.  The load did
\* not assign the current module.
LoadFailureDoesNotAbort ==
    \A t \in NavTasks :
      /\ task[t].pc # "failed"          \* navigate() never enters its catch block
      /\ (task[t].pc = "done" /\ HookThrew(t)) =>
            LET items == ItemsOf(t)
                route == task[t].route
                shown == FirstAt(t, LAMBDA x : x.op = "showError")
                handled == FirstAt(t, LAMBDA x : x.op = "handler")
                assigned == FirstAt(t, LAMBDA x : x.op = "currentRoute")
            IN  /\ task[t].outcome = "settled"
                /\ EmitsOf(t, "module:error") = <<Emit(t, "module:error", <<>>, route.module)>>
                /\ Cardinality(WithOp(items, "showError")) = 1
                /\ Cardinality(WithOp(items, "handler")) = 1
                /\ Cardinality(WithOp(items, "currentRoute")) = 1
                /\ shown < handled /\ handled < assigned
                /\ trace[handled].name = route.handler
                /\ route.afterEnter # Null =>
                       \E k \in (handled + 1)..(assigned - 1) :
                           trace[k].t = t /\ trace[k].op = "afterEnter"
                                          /\ trace[k].name = "route"
                /\ config.afterEnter # Null =>
                       \E k \in (handled + 1)..(assigned - 1) :
                           trace[k].t = t /\ trace[k].op = "afterEnter"
                                          /\ trace[k].name = "global"
                /\ items[Len(items)] = Emit(t, "route:change", route.path, "")
                /\ EmitsOf(t, "route:error") = <<>>
                /\ WithOp(items, "currentModule") = {}
                /\ EmitsOf(t, "module:load") = <<>>

\* navigate('/a') with a module whose render threw has settled: the current
\* route names module A, no module is current and the page shows what the
\* error panel left
RouteOfUnmountedModuleWitness ==
    \E t \in NavTasks :
        /\ task[t].pc = "done" /\ task[t].outcome = "settled"
        /\ \E k \in 1..Len(trace) :
               trace[k].t = t /\ trace[k].op = "render" /\ trace[k].arg = "throw"
        /\ currentRoute.path = PagePath
        /\ currentRoute.module = "A"
        /\ currentModule = NoModule
        /\ innerHTML = "error"

----------------------------------------------------------------------------
(* The hashchange that the router's own write of the fragment raises *)

EchoConfigs ==
    {DefaultConfig, [DefaultConfig EXCEPT !.mode = "hash"],
     [DefaultConfig EXCEPT !.mode = "hash", !.hashbang = TRUE]}

NextEcho ==
    \/ SettingUp /\ ~has(modules, "A") /\ RegisterModule("A", BareModule, "ok")
    \/ /\ SettingUp /\ has(modules, "A") /\ ~routesHas(routes, HomePath)
       /\ RegisterRoute(HomePath, fnOptions("h1"))
    \/ /\ SettingUp /\ routesHas(routes, HomePath) /\ ~routesHas(routes, PagePath)
       /\ RegisterRoute(PagePath, PageOptions)
    \/ SetUp /\ Quiet /\ ~isStarted /\ Start
    \/ StartReady
    \/ /\ isStarted /\ Quiet /\ bqueue = <<>>
       /\ \E path \in {HomePath, PagePath} : Navigate(freeTask(NavTasks), path, FALSE)
    \/ Quiet /\ HandleRouteChange
    \/ \E t \in NavTasks :
          \/ GuardGlobal(t, "true")
          \/ GuardRoute(t, "true")
          \/ CheckRoute(t)
          \/ UpdateUrl(t)
          \/ HandleRoute(t)
          \/ LoadBegin(t)
          \/ LoadBeforeMount(t, "ok")
          \/ LoadDestroy(t, "ok")
          \/ LoadRender(t, "ok")
          \/ LoadAfterMount(t, "ok")
          \/ LoadCurrent(t)
          \/ Handler(t, "ok")
          \/ Settle(t, "ok", "ok")
          \/ Resume(t)

InitEcho == \E options \in EchoConfigs : Init(options)

SpecEcho == InitEcho /\ [][NextEcho]_vars

\* the fragment updateBrowserUrl(path) assigns
fragmentOf(cfg, path) == (IF cfg.hashbang THEN <<"#", "!">> ELSE <<"#">>) \o path

\* navigate() call a was made with a path whose fragment is not the
\* location's
ChangesFragment(a) ==
    fragmentOf(config, task[a].path) #
        task[a].calledWith.hist[task[a].calledWith.hidx].hash

Called(t) == task[t].pc # "idle"

\* the hashchange navigations entered after navigate() call a and before
\* the next navigate() call
EchoesOf(a) ==
    {h \in NavTasks :
        /\ Called(h) /\ task[h].calledWith.origin = "hashchange"
        /\ RequestedAt(h) > RequestedAt(a)
        /\ \A b \in NavTasks \ {a} :
               (Called(b) /\ task[b].calledWith.origin = "navigate"
                /\ RequestedAt(b) > RequestedAt(a)) => RequestedAt(b) > RequestedAt(h)}

HandlerCalls(ts) == {k \in 1..Len(trace) : trace[k].t \in ts /\ trace[k].op = "handler"}

\* C38: once everything a navigate(path) call set off has settled: in hash
\* and hashbang mode, when the path's fragment was not the location's, the
\* hashchange the write raised made one more navigation, with skipHistory
\* and to the same path, so the route's handler ran twice (and its module
\* was rendered twice); when the fragment was the same, and always in
\* history mode, there was no second navigation and the handler ran once.
HashWriteHandlesRouteTwice ==
    (Quiet /\ bqueue = <<>>) =>
        \A a \in NavTasks :
            (Called(a) /\ task[a].calledWith.origin = "navigate") =>
                IF config.mode # "history" /\ ChangesFragment(a)
                THEN /\ Cardinality(EchoesOf(a)) = 1
                     /\ \A h \in EchoesOf(a) :
                            /\ task[h].path = task[a].path
                            /\ task[h].skipHistory
                            /\ task[h].outcome = "settled"
                            /\ WithOp(ItemsOf(h), "updateBrowserUrl") = {}
                     /\ Cardinality(HandlerCalls({a} \cup EchoesOf(a))) = 2
                     /\ task[a].route.module # Null =>
                            /\ WithOp(ItemsOf(a), "render") # {}
                            /\ \A h \in EchoesOf(a) : WithOp(ItemsOf(h), "render") # {}
                ELSE /\ EchoesOf(a) = {}
                     /\ Cardinality(HandlerCalls({a})) = 1

\* in hash mode navigate('/a') from '/' has settled and so has the
\* navigation its hashchange made: handler h2 was called twice
HandledTwiceWitness ==
    /\ Quiet /\ bqueue = <<>>
    /\ config.mode = "hash"
    /\ \E a \in NavTasks :
           /\ task[a].calledWith.origin = "navigate" /\ task[a].path = PagePath
           /\ task[a].outcome = "settled"
           /\ \E h \in EchoesOf(a) : task[h].outcome = "settled"
           /\ Cardinality({k \in HandlerCalls(NavTasks) : trace[k].name = "h2"}) = 2

----------------------------------------------------------------------------
(* start() after destroy() *)

MaxStarts == 2

Starts == {k \in 1..Len(trace) : trace[k] = Hook("start", "initializeContainer", "")}

Destroyed == {k \in 1..Len(trace) : trace[k] = Emit("destroy", "framework:destroyed", <<>>, "")}

NextRestart ==
    \/ /\ SettingUp /\ ~has(modules, "A")
       /\ \E module \in {BareModule, FullModule} : RegisterModule("A", module, "ok")
    \/ /\ SettingUp /\ has(modules, "A") /\ ~routesHas(routes, HomePath)
       /\ RegisterRoute(HomePath, moduleRoute)
    \/ /\ SettingUp /\ routesHas(routes, HomePath) /\ ~routesHas(routes, PagePath)
       /\ RegisterRoute(PagePath, fnOptions("h1"))
    \/ /\ routesHas(routes, PagePath) /\ Quiet /\ ~isStarted
       /\ Cardinality(Starts) < MaxStarts
       /\ Start
    \/ StartReady
    \/ /\ isStarted /\ Quiet
       /\ \E path \in {HomePath, PagePath} : Navigate(freeTask(NavTasks), path, TRUE)
    \/ /\ routesHas(routes, PagePath) /\ Quiet /\ isStarted
       /\ Cardinality(Destroys) < MaxDestroys
       /\ Destroy("ok")
    \/ \E t \in NavTasks :
          \/ GuardGlobal(t, "true")
          \/ GuardRoute(t, "true")
          \/ UpdateUrl(t)
          \/ HandleRoute(t)
          \/ LoadBegin(t)
          \/ LoadBeforeMount(t, "ok")
          \/ LoadDestroy(t, "ok")
          \/ LoadRender(t, "ok")
          \/ LoadAfterMount(t, "ok")
          \/ LoadCurrent(t)
          \/ Handler(t, "ok")
          \/ Settle(t, "ok", "ok")
          \/ Resume(t)

InitRestart == Init(DefaultConfig)

SpecRestart == InitRestart /\ [][NextRestart]_vars

\* the module the last assignment of currentModule before position k named
AssignedBefore(k) ==
    LET ks == {j \in Assignments : j < k}
    IN  IF ks = {} THEN Null
        ELSE trace[CHOOSE j \in ks : \A i \in ks : i <= j].name

\* C39: destroy() leaves the current module as it is: at any time the
\* current module is the one the last successful load assigned, destroy()
\* calls in between or not.  So the first load that renders after a
\* destroy() calls, before it renders, the destroy hook of the module that
\* was current at the destroy(), which destroy() had called already.
DestroyKeepsCurrentModule ==
    /\ currentModule = IF AssignedBefore(Len(trace) + 1) = Null THEN NoModule
                       ELSE modules[AssignedBefore(Len(trace) + 1)]
    /\ \A d \in Destroyed, r \in 1..Len(trace) :
           (/\ r > d /\ trace[r].op = "render"
            /\ AssignedBefore(r) = AssignedBefore(d)
            /\ AssignedBefore(d) # Null
            /\ modules[AssignedBefore(d)].destroy) =>
               /\ \E k \in 1..(d - 1) :
                      /\ trace[k].t = "destroy" /\ trace[k].op = "destroy"
                      /\ trace[k].name = AssignedBefore(d)
               /\ \E k \in (d + 1)..(r - 1) :
                      /\ trace[k].t = trace[r].t /\ trace[k].op = "destroy"
                      /\ trace[k].name = AssignedBefore(d)

\* start(), destroy(), start(): module A's destroy hook was called by
\* destroy() and again by the load of the second start
DestroyedTwiceWitness ==
    /\ Cardinality(Starts) = 2
    /\ \E d \in Destroyed :
           /\ \E k \in 1..(d - 1) : trace[k] = Item("destroy", "destroy", "A", <<>>, <<>>, "ok")
           /\ \E k \in (d + 1)..Len(trace) :
                  /\ trace[k].t \in NavTasks /\ trace[k].op = "destroy"
                  /\ trace[k].name = "A"
                  /\ \A j \in (d + 1)..k : trace[j].op # "currentModule"
    /\ Quiet /\ isStarted /\ currentModule.name = "A"

----------------------------------------------------------------------------
(* Module routes in list form: ['/p', {path: '/r'}, {path: '/k', handler}] *)

ListPath    == Entry(<<"/", "p">>, RouteOptions("listPath", Null, Null, Null))
ListRecord  == Entry(<<"/", "r">>, RouteOptions("listRecord", Null, Null, Null))
ListHandler == Entry(<<"/", "k">>, RouteOptions("listRecord", "h1", Null, Null))

ListForms == { <<ListPath, ListRecord, ListHandler>>,
               <<ListRecord, ListPath>>,
               <<EntryEmpty, EntryFunction>> }

ListPaths == { <<"/", "p">>, <<"/", "r">>, <<"/", "k">>, <<"/", "e">>, <<"/", "f">> }

NextListRoutes ==
    \/ /\ SettingUp /\ modules = <<>>
       /\ \E entries \in ListForms :
             RegisterModule("A", [BareModule EXCEPT !.routes = entries], "ok")
    \/ modules # <<>> /\ AllQuiet /\ ~isStarted /\ Start
    \/ StartReady
    \/ /\ isStarted /\ AllQuiet /\ Cardinality(Navigations) <= MaxEntryNavigations
       /\ \E path \in ListPaths : Navigate(freeTask(NavTasks), path, FALSE)
    \/ \E t \in NavTasks :
          \/ GuardGlobal(t, "true")
          \/ GuardRoute(t, "true")
          \/ UpdateUrl(t)
          \/ HandleRoute(t)
          \/ LoadBegin(t)
          \/ LoadBeforeMount(t, "ok")
          \/ LoadDestroy(t, "ok")
          \/ LoadRender(t, "ok")
          \/ LoadAfterMount(t, "ok")
          \/ LoadCurrent(t)
          \/ Handler(t, "ok")
          \/ Settle(t, "ok", "ok")
          \/ NotFound(t, "ok")
          \/ Resume(t)

InitListRoutes == Init(DefaultConfig)

SpecListRoutes == InitListRoutes /\ [][NextListRoutes]_vars

\* the entry is an element of a routes array that names no handler
ListedWithoutHandler(entry) ==
    entry.options.kind \in {"listPath", "listRecord"} /\ entry.options.handler = Null

\* the navigation that was entered last
LastNavigation ==
    LET ks == {k \in 1..Len(trace) : trace[k].op = "resolve"}
    IN  trace[CHOOSE k \in ks : \A j \in ks : j <= k].t

\* C40: after a module was registered under n, the route of a list-form
\* entry without handler has module n and the string handler 'default',
\* that of a list-form record with a handler has that handler, and that of
\* an object-form entry {} has no handler.  A navigation that resolved to
\* a route with handler 'default' has rendered the module and then written
\* the template 'default' to the container; once all is settled after it
\* the page shows the text 'default', although the module is current.  After
\* a navigation to the object-form entry {} the page shows what the module
\* rendered.
ListRouteGetsDefaultHandler ==
    /\ \A name \in DOMAIN modules :
           \A i \in 1..Len(modules[name].routes) :
               LET entry == modules[name].routes[i]
                   route == routes[routeIndex(routes, entry.path)]
               IN  /\ routesHas(routes, entry.path)
                   /\ route.module = name
                   /\ route.handler = IF ListedWithoutHandler(entry) THEN "default"
                                       ELSE entry.options.handler
    /\ \A t \in NavTasks :
           (task[t].pc = "done" /\ task[t].route.found) =>
               LET items == ItemsOf(t)
               IN  IF task[t].route.handler = "default"
                   THEN /\ task[t].outcome = "settled"
                        /\ \E r \in WithOp(items, "render"), w \in WithOp(items, "template") :
                               /\ r < w
                               /\ items[r].name = task[t].route.module
                               /\ items[w].name = "default"
                        /\ (AllQuiet /\ t = LastNavigation) =>
                               /\ innerHTML = "default"
                               /\ currentModule.name = task[t].route.module
                   ELSE /\ WithOp(items, "template") = {}
                        /\ (AllQuiet /\ t = LastNavigation /\ task[t].route.handler = Null) =>
                               innerHTML = "module:" \o task[t].route.module

\* navigate('/p') for the bare path '/p' of module A's routes array has
\* settled: A is mounted and current, and the page shows 'default'
DefaultTextWitness ==
    /\ AllQuiet
    /\ \E t \in NavTasks :
           /\ task[t].path = <<"/", "p">> /\ task[t].outcome = "settled"
           /\ t = LastNavigation
           /\ task[t].route.module = "A" /\ task[t].route.handler = "default"
           /\ WithOp(ItemsOf(t), "render") # {}
    /\ currentModule.name = "A"
    /\ innerHTML = "default"

====
